---------------------------- MODULE Spec2Model ----------------------------
(***************************************************************************)
(* Maximum-cardinality matching engines of the combinatorial suite.        *)
(*                                                                         *)
(* Every engine is modelled as the state machine of its top-level call:    *)
(* construction, optional greedy warm start, one action per stage of the   *)
(* outer loop, and the construction of the returned sequence.  A stage is  *)
(* computed by operators translated from the engine's member functions;    *)
(* arrays are functions on 0..n-1, vectors are sequences.                  *)
(***************************************************************************)
EXTENDS Integers, Sequences, FiniteSets, TLC

VARIABLES
    engine,     \* which engine this run is
    n,          \* vertex count given to the constructor (HOPCROFT-KARP: left count)
    right_count,\* HOPCROFT-KARP: right count; 0 for the general-graph engines
    edges_in,   \* the edge list given to the constructor
    mode,       \* greedy_mode (0 cold, 1 --greedy, 2 --greedy-md)
    pc,         \* position of the top-level call
    graph,      \* adjacency built by the constructor
    st,         \* the engine instance's members
    result,     \* the returned matching (a sequence of pairs)
    stages      \* completed iterations of the outer loop

vars == <<engine, n, right_count, edges_in, mode, pc, graph, st, result, stages>>

(***************************************************************************)
(* Bounds of the model.                                                    *)
(***************************************************************************)
MaxN == 5            \* all graphs on at most MaxN vertices are inputs
MaxSteps == 400      \* loop iterations of one stage before it is reported hung
MaxSide == 3         \* bipartite inputs have at most MaxSide vertices a side
MaxPermN == 4        \* every traversal order is tried up to MaxPermN keys
MaxStages == 5       \* the stage counter saturates at MaxStages
MaxPermEdges == 3    \* edge lists of up to MaxPermEdges edges come in every order
MaxMainN == 3        \* the files given to main hold graphs of at most MaxMainN vertices

(***************************************************************************)
(* Program constants.                                                      *)
(***************************************************************************)
NIL == -1
UNLABELED == 0
EVEN == 1
ODD == 2

(***************************************************************************)
(* Generic helpers for sequences and sets.                                 *)
(***************************************************************************)
Min(S) == CHOOSE x \in S : \A y \in S : x <= y

RECURSIVE SortedSeq(_)
SortedSeq(S) == IF S = {} THEN <<>>
                ELSE LET m == Min(S) IN <<m>> \o SortedSeq(S \ {m})

PairLess(a, b) == a[1] < b[1] \/ (a[1] = b[1] /\ a[2] < b[2])

MinPair(S) == CHOOSE x \in S : \A y \in S : x = y \/ PairLess(x, y)

RECURSIVE SortedPairs(_)
SortedPairs(S) == IF S = {} THEN <<>>
                  ELSE LET m == MinPair(S) IN <<m>> \o SortedPairs(S \ {m})

SeqSet(s) == {s[i] : i \in 1..Len(s)}

Verts(k) == 0..(k - 1)

AllPairs(k) == {<<u, v>> \in Verts(k) \X Verts(k) : u < v}

(***************************************************************************)
(* Constructor: adjacency lists, sorted ascending and deduplicated;        *)
(* self-loops and out-of-range endpoints are dropped.                      *)
(***************************************************************************)
ValidEdge(k, e) == e[1] >= 0 /\ e[1] < k /\ e[2] >= 0 /\ e[2] < k /\ e[1] # e[2]

Neighbours(k, el, v) ==
    {el[i][2] : i \in {j \in 1..Len(el) : ValidEdge(k, el[j]) /\ el[j][1] = v}}
    \cup {el[i][1] : i \in {j \in 1..Len(el) : ValidEdge(k, el[j]) /\ el[j][2] = v}}

BuildGraph(k, el) == [v \in Verts(k) |-> SortedSeq(Neighbours(k, el, v))]

(***************************************************************************)
(* Greedy warm starts (identical in GABOW-SIMPLE, BLOSSOM-FOREST and the   *)
(* pure MV engine): naive first-fit, and minimum-degree.                   *)
(***************************************************************************)
\* faulty variant: the first neighbour is taken whether matched or not
FirstFree_any(mate, nb, i) == IF i > Len(nb) THEN NIL ELSE nb[i]

RECURSIVE FirstFree(_, _, _)
FirstFree(mate, nb, i) ==
    IF i > Len(nb) THEN NIL
    ELSE IF mate[nb[i]] = NIL THEN nb[i] ELSE FirstFree(mate, nb, i + 1)

RECURSIVE greedy_init_from(_, _, _, _)
greedy_init_from(k, g, mate, u) ==
    IF u >= k THEN mate
    ELSE IF mate[u] # NIL THEN greedy_init_from(k, g, mate, u + 1)
    ELSE LET v == FirstFree(mate, g[u], 1)
         IN IF v = NIL THEN greedy_init_from(k, g, mate, u + 1)
            ELSE greedy_init_from(k, g,
                     [mate EXCEPT ![u] = v, ![v] = u], u + 1)

greedy_init(k, g, mate) == greedy_init_from(k, g, mate, 0)

\* deg[v]++ for every adjacency entry v of every u
RECURSIVE CountDegrees(_, _, _, _, _)
CountDegrees(k, g, deg, u, i) ==
    IF u >= k THEN deg
    ELSE IF i > Len(g[u]) THEN CountDegrees(k, g, deg, u + 1, 1)
    ELSE CountDegrees(k, g, [deg EXCEPT ![g[u][i]] = @ + 1], u, i + 1)

DegLess(deg, a, b) == deg[a] < deg[b] \/ (deg[a] = deg[b] /\ a < b)

RECURSIVE DegOrder(_, _)
DegOrder(deg, S) ==
    IF S = {} THEN <<>>
    ELSE LET m == CHOOSE x \in S : \A y \in S : x = y \/ DegLess(deg, x, y)
         IN <<m>> \o DegOrder(deg, S \ {m})

\* first neighbour of strictly smallest degree among the unmatched ones
RECURSIVE BestFree(_, _, _, _, _, _)
BestFree(mate, deg, nb, i, best, best_deg) ==
    IF i > Len(nb) THEN best
    ELSE IF mate[nb[i]] = NIL /\ (best = NIL \/ deg[nb[i]] < best_deg)
         THEN BestFree(mate, deg, nb, i + 1, nb[i], deg[nb[i]])
         ELSE BestFree(mate, deg, nb, i + 1, best, best_deg)

RECURSIVE greedy_init_md_from(_, _, _, _, _)
greedy_init_md_from(g, deg, order, mate, i) ==
    IF i > Len(order) THEN mate
    ELSE LET u == order[i]
         IN IF mate[u] # NIL THEN greedy_init_md_from(g, deg, order, mate, i + 1)
            ELSE LET best == BestFree(mate, deg, g[u], 1, NIL, 0)
                 IN IF best = NIL
                    THEN greedy_init_md_from(g, deg, order, mate, i + 1)
                    ELSE greedy_init_md_from(g, deg, order,
                             [mate EXCEPT ![u] = best, ![best] = u], i + 1)

greedy_init_md(k, g, mate) ==
    LET deg == CountDegrees(k, g, [v \in Verts(k) |-> 0], 0, 1)
    IN greedy_init_md_from(g, deg, DegOrder(deg, Verts(k)), mate, 1)

\* faulty variant: the test mate[u] > u is left out
MatchedPairs_unordered(k, mate) ==
    {<<u, mate[u]>> : u \in {x \in Verts(k) : mate[x] # NIL}}

MatchedPairs(k, mate) == {<<u, mate[u]>> : u \in {x \in Verts(k) : mate[x] # NIL /\ mate[x] > x}}

(***************************************************************************)
(* GABOW-SIMPLE (gabow_simple.cpp).                                        *)
(***************************************************************************)
\* path-halving find; returns the halved array and the representative
RECURSIVE GS_find_base(_, _)
GS_find_base(base, v) ==
    IF base[v] = v THEN [base |-> base, r |-> v]
    ELSE LET b2 == [base EXCEPT ![v] = base[base[v]]]
         IN GS_find_base(b2, b2[v])

RECURSIVE GS_lca_climb(_, _, _, _)
GS_lca_climb(s, ep, hx, hy) ==
    IF s.hung THEN [s EXCEPT !.lca = NIL]
    ELSE IF s.fuel = 0 THEN [s EXCEPT !.hung = TRUE, !.lca = NIL]
    ELSE IF s.lca_tag1[hy] = ep THEN [s EXCEPT !.lca = hy]
    ELSE IF s.lca_tag2[hx] = ep THEN [s EXCEPT !.lca = hx]
    ELSE LET hxr == s.mate[hx] = NIL
             hyr == s.mate[hy] = NIL
         IN IF hxr /\ hyr THEN [s EXCEPT !.lca = NIL]
            ELSE LET fx == IF hxr THEN [base |-> s.base, r |-> hx]
                           ELSE GS_find_base(s.base, s.parent[s.mate[hx]])
                     t1 == IF hxr THEN s.lca_tag1
                           ELSE [s.lca_tag1 EXCEPT ![fx.r] = ep]
                     fy == IF hyr THEN [base |-> fx.base, r |-> hy]
                           ELSE GS_find_base(fx.base, s.parent[s.mate[hy]])
                     t2 == IF hyr THEN s.lca_tag2
                           ELSE [s.lca_tag2 EXCEPT ![fy.r] = ep]
                 IN GS_lca_climb([s EXCEPT !.base = fy.base, !.lca_tag1 = t1,
                                           !.lca_tag2 = t2, !.fuel = @ - 1],
                                 ep, fx.r, fy.r)

\* faulty variant: the epoch of the previous call is used again
GS_find_lca_stale(s, u, v) ==
    GS_lca_climb([s EXCEPT !.base = GS_find_base(GS_find_base(s.base, u).base, v).base,
                           !.lca_tag1 = [@ EXCEPT ![GS_find_base(s.base, u).r] = s.lca_epoch],
                           !.lca_tag2 = [@ EXCEPT ![GS_find_base(s.base, v).r] = s.lca_epoch]],
                 s.lca_epoch, GS_find_base(s.base, u).r, GS_find_base(s.base, v).r)

\* find_lca(u, v): the result is left in field lca
GS_find_lca(s, u, v) ==
    LET ep == s.lca_epoch + 1
        fx == GS_find_base(s.base, u)
        fy == GS_find_base(fx.base, v)
    IN GS_lca_climb([s EXCEPT !.lca_epoch = ep, !.base = fy.base,
                              !.lca_tag1 = [@ EXCEPT ![fx.r] = ep],
                              !.lca_tag2 = [@ EXCEPT ![fy.r] = ep]],
                    ep, fx.r, fy.r)

RECURSIVE GS_shrink_walk(_, _, _, _, _)
GS_shrink_walk(s, lca, x, y, v) ==
    IF s.hung THEN s
    ELSE IF s.fuel = 0 THEN [s EXCEPT !.hung = TRUE]
    ELSE IF v = lca THEN s
    ELSE LET mv == s.mate[v]
             f1 == GS_find_base(s.base, v)
             b1 == [f1.base EXCEPT ![f1.r] = lca]
             f2 == GS_find_base(b1, mv)
             b2 == [f2.base EXCEPT ![f2.r] = lca]
             b3 == [b2 EXCEPT ![lca] = lca]
             enq == s.label[mv] # EVEN
             f3 == GS_find_base(b3, s.parent[mv])
         IN GS_shrink_walk(
                [s EXCEPT !.base = f3.base,
                          !.bridge_src = [@ EXCEPT ![mv] = x],
                          !.bridge_tgt = [@ EXCEPT ![mv] = y],
                          !.label = IF enq THEN [@ EXCEPT ![mv] = EVEN] ELSE @,
                          !.queue = IF enq THEN Append(@, mv) ELSE @,
                          !.fuel = @ - 1],
                lca, x, y, f3.r)

\* faulty variant: the contraction matches the two ends of the bridge
GS_shrink_path_rematch(s, lca, x, y) ==
    [s EXCEPT !.mate = [@ EXCEPT ![x] = y]]

\* faulty variant: the blossom is not contracted
GS_shrink_path_skipped(s, lca, x, y) == s

GS_shrink_path(s, lca, x, y) ==
    LET f == GS_find_base(s.base, x)
    IN GS_shrink_walk([s EXCEPT !.base = f.base], lca, x, y, f.r)

\* trace_path: the explicit frame stack is field stk, the output is pairs
RECURSIVE GS_trace_loop(_)
GS_trace_loop(s) ==
    IF s.hung THEN s
    ELSE IF s.fuel = 0 THEN [s EXCEPT !.hung = TRUE]
    ELSE IF s.stk = <<>> THEN s
    ELSE LET top == Len(s.stk)
             f == s.stk[top]
             pop == SubSeq(s.stk, 1, top - 1)
             t == [s EXCEPT !.fuel = @ - 1]
         IN IF f.v = f.u THEN GS_trace_loop([t EXCEPT !.stk = pop])
            ELSE IF f.phase = 0
            THEN IF s.bridge_src[f.v] = NIL
                 THEN IF s.mate[f.v] = NIL
                      THEN GS_trace_loop([t EXCEPT !.stk = pop])
                      ELSE LET mv == s.mate[f.v]
                               pmv == s.parent[mv]
                           IN GS_trace_loop(
                                  [t EXCEPT !.pairs = Append(@, <<mv, pmv>>),
                                            !.stk[top].v = pmv])
                 ELSE LET sb == s.bridge_src[f.v]
                          tb == s.bridge_tgt[f.v]
                      IN GS_trace_loop(
                             [t EXCEPT !.stk = Append(
                                 [@ EXCEPT ![top] = [f EXCEPT !.sb = sb, !.tb = tb,
                                                              !.phase = 1]],
                                 [v |-> sb, u |-> s.mate[f.v], phase |-> 0,
                                  sb |-> 0, tb |-> 0])])
            ELSE IF f.phase = 1
            THEN GS_trace_loop(
                     [t EXCEPT !.pairs = Append(@, <<f.sb, f.tb>>),
                               !.stk = Append(
                                   [@ EXCEPT ![top] = [f EXCEPT !.phase = 2]],
                                   [v |-> f.tb, u |-> f.u, phase |-> 0,
                                    sb |-> 0, tb |-> 0])])
            ELSE GS_trace_loop([t EXCEPT !.stk = pop])

GS_trace_path(s, v, u) ==
    GS_trace_loop([s EXCEPT !.stk = <<[v |-> v, u |-> u, phase |-> 0,
                                       sb |-> 0, tb |-> 0]>>])

\* faulty variant: only the bridge edge is flipped
FlipPairs_first(mate, pairs, i) ==
    IF pairs = <<>> THEN mate
    ELSE [[mate EXCEPT ![pairs[1][1]] = pairs[1][2]]
                EXCEPT ![pairs[1][2]] = pairs[1][1]]

RECURSIVE FlipPairs(_, _, _)
FlipPairs(mate, pairs, i) ==
    IF i > Len(pairs) THEN mate
    ELSE FlipPairs([[mate EXCEPT ![pairs[i][1]] = pairs[i][2]]
                          EXCEPT ![pairs[i][2]] = pairs[i][1]], pairs, i + 1)

GS_augment_two_sides(s, u, v) ==
    LET s1 == GS_trace_path([s EXCEPT !.pairs = <<<<u, v>>>>], u, NIL)
        s2 == GS_trace_path(s1, v, NIL)
    IN IF s2.hung THEN s2
       ELSE [s2 EXCEPT !.mate = FlipPairs(@, s2.pairs, 1)]

RECURSIVE GS_scan(_, _, _, _)

\* GS_scan: the rest of the block once s2 is known
GS_scan_s2(g, u, i, v, s2) ==
    IF s2.hung THEN s2
    ELSE IF s2.lca # NIL
    THEN GS_scan(g, GS_shrink_path(
                        GS_shrink_path(s2, s2.lca, u, v),
                        s2.lca, v, u),
                 u, i + 1)
    ELSE [GS_augment_two_sides(s2, u, v) EXCEPT !.augmented = TRUE]

\* the for-loop over graph[u]; field augmented is the early "return true"
GS_scan(g, s, u, i) ==
    IF s.hung \/ s.augmented \/ i > Len(g[u]) THEN s
    ELSE IF s.fuel = 0 THEN [s EXCEPT !.hung = TRUE]
    ELSE LET v == g[u][i]
             fu == GS_find_base(s.base, u)
             fv == GS_find_base(fu.base, v)
             bv == fv.r
             s1 == [s EXCEPT !.base = fv.base, !.fuel = @ - 1]
         IN IF fu.r = bv \/ v = s1.mate[u] THEN GS_scan(g, s1, u, i + 1)
            ELSE IF s1.label[bv] = UNLABELED
            THEN LET w == s1.mate[v]
                 IN GS_scan(g, [s1 EXCEPT !.label = [[@ EXCEPT ![v] = ODD]
                                                       EXCEPT ![w] = EVEN],
                                          !.parent = [@ EXCEPT ![v] = u],
                                          !.queue = Append(@, w)],
                            u, i + 1)
            ELSE IF s1.label[bv] = EVEN
            THEN GS_scan_s2(g, u, i, v, GS_find_lca(s1, u, v))
            ELSE GS_scan(g, s1, u, i + 1)

RECURSIVE GS_bfs(_, _)
GS_bfs(g, s) ==
    IF s.hung \/ s.augmented THEN s
    ELSE IF s.fuel = 0 THEN [s EXCEPT !.hung = TRUE]
    ELSE IF s.qhead >= Len(s.queue) THEN s
    ELSE LET u == s.queue[s.qhead + 1]
             f == GS_find_base(s.base, u)
             s1 == [s EXCEPT !.qhead = @ + 1, !.base = f.base, !.fuel = @ - 1]
         IN IF s1.label[f.r] # EVEN THEN GS_bfs(g, s1)
            ELSE GS_bfs(g, GS_scan(g, s1, u, 1))

\* the members of a GabowSimple instance right after construction
GS_new(k) ==
    [mate |-> [v \in Verts(k) |-> NIL],
     base |-> [v \in Verts(k) |-> 0],
     parent |-> [v \in Verts(k) |-> 0],
     label |-> [v \in Verts(k) |-> 0],
     bridge_src |-> [v \in Verts(k) |-> 0],
     bridge_tgt |-> [v \in Verts(k) |-> 0],
     lca_tag1 |-> [v \in Verts(k) |-> 0],
     lca_tag2 |-> [v \in Verts(k) |-> 0],
     lca_epoch |-> 0,
     augmented |-> FALSE,
     hung |-> FALSE]

\* GS_find_and_augment: the rest of the block once s is known
GS_find_and_augment_s(s) ==
    [mate |-> s.mate, base |-> s.base, parent |-> s.parent,
     label |-> s.label, bridge_src |-> s.bridge_src,
     bridge_tgt |-> s.bridge_tgt, lca_tag1 |-> s.lca_tag1,
     lca_tag2 |-> s.lca_tag2, lca_epoch |-> s.lca_epoch,
     augmented |-> s.augmented, hung |-> s.hung]

\* find_and_augment up to the BFS loop: the per-iteration state is reset
\* and all free vertices become EVEN roots, queued in ascending order
GS_find_and_augment_reset(k, m) ==
    [mate |-> m.mate,
     base |-> [v \in Verts(k) |-> v],
     parent |-> [v \in Verts(k) |-> NIL],
     label |-> [v \in Verts(k) |->
                   IF m.mate[v] = NIL THEN EVEN ELSE UNLABELED],
     bridge_src |-> [v \in Verts(k) |-> NIL],
     bridge_tgt |-> [v \in Verts(k) |-> NIL],
     lca_tag1 |-> m.lca_tag1,
     lca_tag2 |-> m.lca_tag2,
     lca_epoch |-> m.lca_epoch,
     queue |-> SortedSeq({v \in Verts(k) : m.mate[v] = NIL}), qhead |-> 0,
     lca |-> NIL, pairs |-> <<>>, stk |-> <<>>,
     augmented |-> FALSE, hung |-> FALSE, fuel |-> MaxSteps]

\* one call of find_and_augment on the members m
GS_find_and_augment(k, g, m) ==
    GS_find_and_augment_s(GS_bfs(g, GS_find_and_augment_reset(k, m)))

\* the tail of maximum_matching: collect (u, mate[u]) with mate[u] > u, sort
GS_collect(k, m) == SortedPairs(MatchedPairs(k, m.mate))

RECURSIVE GS_loop(_, _, _, _)

\* GS_loop: the rest of the block once m2 is known
GS_loop_m2(k, g, bound, m2) ==
    IF m2.hung \/ ~m2.augmented THEN m2 ELSE GS_loop(k, g, m2, bound - 1)

\* maximum_matching(greedy_mode) as one computation: members after the loop
GS_loop(k, g, m, bound) ==
    IF bound = 0 THEN [m EXCEPT !.hung = TRUE]
    ELSE GS_loop_m2(k, g, bound, GS_find_and_augment(k, g, m))

GS_greedy(k, g, m, md) ==
    IF md = 1 THEN [m EXCEPT !.mate = greedy_init(k, g, @)]
    ELSE IF md = 2 THEN [m EXCEPT !.mate = greedy_init_md(k, g, @)]
    ELSE m

(***************************************************************************)
(* BLOSSOM-FOREST (edmonds_blossom_optimized.cpp).  Vectors that grow with *)
(* the blossom ids are sequences read at index id + 1.                     *)
(***************************************************************************)
At(a, i) == a[i + 1]

Put(a, i, x) == IF a[i + 1] = x THEN a ELSE [a EXCEPT ![i + 1] = x]

RECURSIVE Fill(_, _)
Fill(m, x) == IF m <= 0 THEN <<>> ELSE Append(Fill(m - 1, x), x)

RECURSIVE Iota(_)
Iota(m) == IF m <= 0 THEN <<>> ELSE Append(Iota(m - 1), m - 1)

Resize(a, m, x) == IF m <= Len(a) THEN SubSeq(a, 1, m)
                   ELSE a \o Fill(m - Len(a), x)

RECURSIVE Reverse(_)
Reverse(q) == IF q = <<>> THEN <<>> ELSE Append(Reverse(Tail(q)), Head(q))

EmptyBlos == [childs |-> <<>>, edges |-> <<>>]

BF_isBlossom(k, b) == b >= k

BF_ensure(s, b) ==
    IF b < Len(s.label) THEN s
    ELSE [s EXCEPT !.label = Resize(@, b + 1, 0),
                   !.labeledge = Resize(@, b + 1, <<-1, -1>>),
                   !.blossomparent = Resize(@, b + 1, -1),
                   !.blossombase = Resize(@, b + 1, -1)]

RECURSIVE BF_leaves(_, _, _)
RECURSIVE BF_leaves_of(_, _, _, _)
BF_leaves(k, blos, b) ==
    IF ~BF_isBlossom(k, b) THEN <<b>>
    ELSE BF_leaves_of(k, blos, At(blos, b).childs, 1)
BF_leaves_of(k, blos, cs, i) ==
    IF i > Len(cs) THEN <<>>
    ELSE BF_leaves(k, blos, cs[i]) \o BF_leaves_of(k, blos, cs, i + 1)

\* faulty variant: the S label of the mate of a T-vertex is not written
RECURSIVE BF_assignLabel_unmarked(_, _, _, _, _)
BF_assignLabel_unmarked(k, s, w, t, v) ==
    LET b == At(s.inblossom, w)
        s1 == BF_ensure(s, b)
        le == IF v # -1 THEN <<v, w>> ELSE <<-1, -1>>
        s2 == IF t = 1 /\ v # -1 THEN s1
              ELSE [s1 EXCEPT !.label = Put(Put(@, b, t), w, t),
                              !.labeledge = Put(Put(@, b, le), w, le)]
    IN IF t = 1 THEN [s2 EXCEPT !.queue = @ \o BF_leaves(k, s2.blos, b)]
       ELSE IF t = 2
       THEN LET base == At(s2.blossombase, b)
            IN BF_assignLabel_unmarked(k, s2, At(s2.mate, base), 1, base)
       ELSE s2

RECURSIVE BF_assignLabel(_, _, _, _, _)
BF_assignLabel(k, s, w, t, v) ==
    LET b == At(s.inblossom, w)
        s1 == BF_ensure(s, b)
        le == IF v # -1 THEN <<v, w>> ELSE <<-1, -1>>
        s2 == [s1 EXCEPT !.label = Put(Put(@, b, t), w, t),
                         !.labeledge = Put(Put(@, b, le), w, le)]
    IN IF t = 1 THEN [s2 EXCEPT !.queue = @ \o BF_leaves(k, s2.blos, b)]
       ELSE IF t = 2
       THEN LET base == At(s2.blossombase, b)
            IN BF_assignLabel(k, s2, At(s2.mate, base), 1, base)
       ELSE s2

RECURSIVE BF_restore(_, _, _)
BF_restore(label, path, i) ==
    IF i > Len(path) THEN label
    ELSE BF_restore(Put(label, path[i], 1), path, i + 1)

\* the while loop of scanBlossom; the result is left in field base
RECURSIVE BF_scan_walk(_, _, _, _)
BF_scan_walk(s, v, w, path) ==
    IF s.hung THEN s
    ELSE IF s.fuel = 0 THEN [s EXCEPT !.hung = TRUE]
    ELSE IF v = -2 /\ w = -2
    THEN [s EXCEPT !.base = -2, !.label = BF_restore(@, path, 1)]
    ELSE IF v # -2
    THEN LET b == At(s.inblossom, v)
         IN IF (At(s.label, b) \div 4) % 2 = 1
            THEN [s EXCEPT !.base = At(s.blossombase, b),
                           !.label = BF_restore(@, path, 1)]
            ELSE LET le == At(s.labeledge, b)
                     v2 == IF le[1] = -1 THEN -2
                           ELSE At(s.labeledge, At(s.inblossom, le[1]))[1]
                     s1 == [s EXCEPT !.label = Put(@, b, 5), !.fuel = @ - 1]
                 IN IF w # -2 THEN BF_scan_walk(s1, w, v2, Append(path, b))
                    ELSE BF_scan_walk(s1, v2, w, Append(path, b))
    ELSE BF_scan_walk([s EXCEPT !.fuel = @ - 1], w, v, path)

BF_scanBlossom(s, v, w) == BF_scan_walk(s, v, w, <<>>)

\* first trace of addBlossom: from v back to the base blossom bb
RECURSIVE BF_add_trace_v(_, _, _, _, _, _)
BF_add_trace_v(s, bid, bb, bv, childs, edges) ==
    IF s.hung THEN [s |-> s, childs |-> childs, edges |-> edges]
    ELSE IF s.fuel = 0
    THEN [s |-> [s EXCEPT !.hung = TRUE], childs |-> childs, edges |-> edges]
    ELSE IF bv = bb THEN [s |-> s, childs |-> childs, edges |-> edges]
    ELSE LET le == At(s.labeledge, bv)
         IN BF_add_trace_v([s EXCEPT !.blossomparent = Put(@, bv, bid),
                                     !.fuel = @ - 1],
                           bid, bb, At(s.inblossom, le[1]),
                           Append(childs, bv), Append(edges, le))

\* second trace of addBlossom: from w back to bb, edges reversed
RECURSIVE BF_add_trace_w(_, _, _, _, _, _)
BF_add_trace_w(s, bid, bb, bw, childs, edges) ==
    IF s.hung THEN [s |-> s, childs |-> childs, edges |-> edges]
    ELSE IF s.fuel = 0
    THEN [s |-> [s EXCEPT !.hung = TRUE], childs |-> childs, edges |-> edges]
    ELSE IF bw = bb THEN [s |-> s, childs |-> childs, edges |-> edges]
    ELSE LET le == At(s.labeledge, bw)
         IN BF_add_trace_w([s EXCEPT !.blossomparent = Put(@, bw, bid),
                                     !.fuel = @ - 1],
                           bid, bb, At(s.inblossom, le[1]),
                           Append(childs, bw), Append(edges, <<le[2], le[1]>>))

RECURSIVE BF_relabel_leaves(_, _, _, _)
BF_relabel_leaves(s, bid, lv, i) ==
    IF i > Len(lv) THEN s
    ELSE LET u == lv[i]
             push == At(s.label, At(s.inblossom, u)) = 2
         IN BF_relabel_leaves(
                [s EXCEPT !.queue = IF push THEN Append(@, u) ELSE @,
                          !.inblossom = Put(@, u, bid)],
                bid, lv, i + 1)

\* BF_addBlossom: the rest of the block once s3 is known
BF_addBlossom_s3(k, bid, s3) ==
    IF s3.hung THEN s3
    ELSE BF_relabel_leaves(s3, bid, BF_leaves(k, s3.blos, bid), 1)

\* faulty variant: the blossom is not built
BF_addBlossom_skipped(k, s, base, v, w) == s

BF_addBlossom(k, s, base, v, w) ==
    LET bb == At(s.inblossom, base)
        bv == At(s.inblossom, v)
        bw == At(s.inblossom, w)
        bid == s.nblos
        blos1 == IF bid >= Len(s.blos) THEN Append(s.blos, EmptyBlos)
                 ELSE Put(s.blos, bid, EmptyBlos)
        s1 == BF_ensure([s EXCEPT !.nblos = @ + 1, !.blos = blos1], bid)
        s2 == [s1 EXCEPT !.blossombase = Put(@, bid, base),
                         !.blossomparent = Put(Put(@, bid, -1), bb, bid)]
        t1 == BF_add_trace_v(s2, bid, bb, bv, <<>>, <<<<v, w>>>>)
        t2 == BF_add_trace_w(t1.s, bid, bb, bw,
                             Reverse(Append(t1.childs, bb)), Reverse(t1.edges))
    IN BF_addBlossom_s3(k, bid,
           [t2.s EXCEPT !.blos = Put(@, bid, [childs |-> t2.childs,
                                               edges |-> t2.edges]),
                        !.label = Put(@, bid, 1),
                        !.labeledge = Put(@, bid, At(t2.s.labeledge, bb)),
                        !.h_blossoms = @ + 1,
                        !.h_nested = @ \/ \E i \in 1..Len(t2.childs) :
                                               BF_isBlossom(k, t2.childs[i])])

\* expandBlossom(b, true): the only call passes endstage = true, so the
\* mid-stage relabelling branch is never entered
RECURSIVE BF_expand_loop(_, _, _)
BF_expand_loop(k, s, stack) ==
    IF s.hung THEN s
    ELSE IF s.fuel = 0 THEN [s EXCEPT !.hung = TRUE]
    ELSE IF stack = <<>> THEN s
    ELSE LET top == Len(stack)
             f == stack[top]
             bl == At(s.blos, f.b)
             t == [s EXCEPT !.fuel = @ - 1]
         IN IF f.idx < Len(bl.childs)
            THEN LET c == bl.childs[f.idx + 1]
                     stk1 == [stack EXCEPT ![top].idx = @ + 1]
                     t1 == [t EXCEPT !.blossomparent = Put(@, c, -1)]
                 IN IF BF_isBlossom(k, c)
                    THEN BF_expand_loop(k, t1, Append(stk1, [b |-> c, idx |-> 0]))
                    ELSE BF_expand_loop(k, [t1 EXCEPT !.inblossom = Put(@, c, c)],
                                        stk1)
            ELSE BF_expand_loop(k,
                     [t EXCEPT !.label = Put(@, f.b, 0),
                               !.blos = Put(@, f.b, EmptyBlos)],
                     SubSeq(stack, 1, top - 1))

BF_expandBlossom(k, s, b) == BF_expand_loop(k, s, <<[b |-> b, idx |-> 0]>>)

RECURSIVE BF_child_of(_, _, _, _)
BF_child_of(bp, t, b, fuel) ==
    IF fuel = 0 THEN -1
    ELSE IF At(bp, t) = b THEN t
    ELSE BF_child_of(bp, At(bp, t), b, fuel - 1)

RECURSIVE BF_index_of(_, _, _)
BF_index_of(cs, t, i) ==
    IF i >= Len(cs) THEN i
    ELSE IF cs[i + 1] = t THEN i
    ELSE BF_index_of(cs, t, i + 1)

\* the pair (ww, xx) read from bl.edges at position j in direction jstep
BF_edge_at(bl, j, jstep) ==
    LET k == Len(bl.childs)
    IN IF jstep = 1 THEN bl.edges[(j % k) + 1]
       ELSE LET e == bl.edges[((j - 1) % k) + 1] IN <<e[2], e[1]>>

BF_start_j(f, k) ==
    IF f.i % 2 = 1 THEN [f EXCEPT !.phase = 2, !.j = f.i - k, !.jstep = 1]
    ELSE [f EXCEPT !.phase = 2, !.j = f.i, !.jstep = -1]

BF_Frame(b, v) == [b |-> b, v |-> v, phase |-> 0, i |-> 0, j |-> 0, jstep |-> 0]

\* faulty variant: the childs are rotated, the edges are left in place
BF_rotate_childs_only(bl, i) ==
    [childs |-> SubSeq(bl.childs, i + 1, Len(bl.childs)) \o SubSeq(bl.childs, 1, i),
     edges |-> bl.edges]

BF_rotate(bl, i) ==
    [childs |-> SubSeq(bl.childs, i + 1, Len(bl.childs)) \o SubSeq(bl.childs, 1, i),
     edges |-> SubSeq(bl.edges, i + 1, Len(bl.edges)) \o SubSeq(bl.edges, 1, i)]

\* one pass through the body of the while loop of augmentBlossom, phases
\* 2, 3 and 4 falling through as in the source; t is the state after the
\* frame on top of the stack has been read, bl the blossom of that frame
RECURSIVE BF_ab_loop(_, _, _)

\* phase 4: match the pair of the edge just stepped over, back to phase 2
BF_ab_phase4(k, t, stack, bl, f4) ==
    LET e == BF_edge_at(bl, f4.j - f4.jstep, f4.jstep)
    IN BF_ab_loop(k,
           [t EXCEPT !.mate = Put(Put(@, e[1], e[2]), e[2], e[1])],
           [stack EXCEPT ![Len(stack)] = [f4 EXCEPT !.phase = 2]])

\* phase 3: step j, descend into the second child when it is a blossom
BF_ab_phase3(k, t, stack, bl, f3) ==
    LET e == BF_edge_at(bl, f3.j, f3.jstep)
        f4 == [f3 EXCEPT !.j = @ + f3.jstep, !.phase = 4]
        c2 == bl.childs[(f4.j % Len(bl.childs)) + 1]
    IN IF BF_isBlossom(k, c2)
       THEN BF_ab_loop(k, t, Append([stack EXCEPT ![Len(stack)] = f4],
                                    BF_Frame(c2, e[2])))
       ELSE BF_ab_phase4(k, t, stack, bl, f4)

BF_ab_loop(k, s, stack) ==
    IF s.hung THEN s
    ELSE IF s.fuel = 0 THEN [s EXCEPT !.hung = TRUE]
    ELSE IF stack = <<>> THEN s
    ELSE
    LET top == Len(stack)
        f == stack[top]
        bl == At(s.blos, f.b)
        kk == Len(bl.childs)
        t == [s EXCEPT !.fuel = @ - 1,
                       !.h_depth = IF top > @ THEN top ELSE @]
    IN CASE f.phase = 0 ->
            LET c == BF_child_of(s.blossomparent, f.v, f.b, s.fuel)
                f1 == [f EXCEPT !.i = BF_index_of(bl.childs, c, 0)]
            IN IF c = -1 THEN [s EXCEPT !.hung = TRUE]
               ELSE IF BF_isBlossom(k, c)
               THEN BF_ab_loop(k, t,
                        Append([stack EXCEPT ![top] = [f1 EXCEPT !.phase = 1]],
                               BF_Frame(c, f.v)))
               ELSE BF_ab_loop(k, t, [stack EXCEPT ![top] = BF_start_j(f1, kk)])
         [] f.phase = 1 ->
            BF_ab_loop(k, t, [stack EXCEPT ![top] = BF_start_j(f, kk)])
         [] f.phase = 2 ->
            IF f.j = 0
            THEN BF_ab_loop(k,
                     [t EXCEPT !.blos = IF f.i > 0
                                        THEN Put(@, f.b, BF_rotate(bl, f.i))
                                        ELSE @,
                               !.blossombase = Put(@, f.b, f.v)],
                     SubSeq(stack, 1, top - 1))
            ELSE LET f3 == [f EXCEPT !.j = @ + f.jstep, !.phase = 3]
                     c1 == bl.childs[(f3.j % kk) + 1]
                     e == BF_edge_at(bl, f3.j, f3.jstep)
                 IN IF BF_isBlossom(k, c1)
                    THEN BF_ab_loop(k, t, Append([stack EXCEPT ![top] = f3],
                                                 BF_Frame(c1, e[1])))
                    ELSE BF_ab_phase3(k, t, stack, bl, f3)
         [] f.phase = 3 -> BF_ab_phase3(k, t, stack, bl, f)
         [] f.phase = 4 -> BF_ab_phase4(k, t, stack, bl, f)

BF_augmentBlossom(k, s, b, v) == BF_ab_loop(k, s, <<BF_Frame(b, v)>>)

RECURSIVE BF_am_walk(_, _, _, _)

\* BF_am_walk_s1: the rest of the block once s3 is known
BF_am_walk_s1_s3(k, le2, s3) ==
    IF s3.hung THEN s3
    ELSE BF_am_walk(k,
             [s3 EXCEPT !.mate = Put(@, le2[2], le2[1])],
             le2[1], le2[2])

\* BF_am_walk: the rest of the block once s1 is known
BF_am_walk_s1(k, sv, j, bs, s1) ==
    IF s1.hung THEN s1
    ELSE
    LET s2 == [s1 EXCEPT !.mate = Put(@, sv, j), !.fuel = @ - 1]
        le == At(s2.labeledge, bs)
    IN IF le[1] = -1 THEN s2
       ELSE LET bt == At(s2.inblossom, le[1])
                le2 == At(s2.labeledge, bt)
            IN BF_am_walk_s1_s3(k, le2,
                   IF BF_isBlossom(k, bt)
                   THEN BF_augmentBlossom(k, s2, bt, le2[2])
                   ELSE s2)

\* the while (true) of augmentMatching for one side
BF_am_walk(k, s, sv, j) ==
    IF s.hung THEN s
    ELSE IF s.fuel = 0 THEN [s EXCEPT !.hung = TRUE]
    ELSE LET bs == At(s.inblossom, sv)
         IN BF_am_walk_s1(k, sv, j, bs,
                IF BF_isBlossom(k, bs) THEN BF_augmentBlossom(k, s, bs, sv)
                ELSE s)

BF_augmentMatching(k, s, v, w) ==
    BF_am_walk(k, BF_am_walk(k, s, v, w), w, v)

\* for (int w : adj[v]) of the BFS in solve
RECURSIVE BF_scan(_, _, _, _, _)
BF_scan(k, g, s, v, i) ==
    IF s.hung THEN s
    ELSE IF s.fuel = 0 THEN [s EXCEPT !.hung = TRUE]
    ELSE IF i > Len(g[v]) THEN s
    ELSE LET w == g[v][i]
             bv == At(s.inblossom, v)
             bw == At(s.inblossom, w)
             t == [s EXCEPT !.fuel = @ - 1]
         IN IF bv = bw THEN BF_scan(k, g, t, v, i + 1)
            ELSE LET s1 == BF_ensure(t, bw)
                 IN IF At(s1.label, bw) = 0
                    THEN BF_scan(k, g, BF_assignLabel(k, s1, w, 2, v), v, i + 1)
                    ELSE IF At(s1.label, bw) = 1
                    THEN LET s2 == BF_scanBlossom(s1, v, w)
                         IN IF s2.hung THEN s2
                            ELSE IF s2.base >= 0
                            THEN BF_scan(k, g,
                                     BF_addBlossom(k, s2, s2.base, v, w), v, i + 1)
                            ELSE [BF_augmentMatching(k, s2, v, w)
                                     EXCEPT !.augmented = TRUE]
                    ELSE BF_scan(k, g, s1, v, i + 1)

\* the body of the BFS loop: v is popped from the back of the queue and,
\* unless stale, its adjacency list is scanned
BF_bfs_vertex(k, g, s) ==
    LET v == s.queue[Len(s.queue)]
        t == [s EXCEPT !.queue = SubSeq(@, 1, Len(@) - 1), !.fuel = @ - 1]
    IN IF At(t.label, At(t.inblossom, v)) # 1 THEN t
       ELSE BF_scan(k, g, t, v, 1)

\* while (!queue.empty() && !augmented)
RECURSIVE BF_bfs(_, _, _)
BF_bfs(k, g, s) ==
    IF s.hung THEN s
    ELSE IF s.fuel = 0 THEN [s EXCEPT !.hung = TRUE]
    ELSE IF s.queue = <<>> \/ s.augmented THEN s
    ELSE BF_bfs(k, g, BF_bfs_vertex(k, g, s))

\* the first k entries replaced by init, the tail kept
BF_reset_prefix(a, k, init) == init \o SubSeq(a, k + 1, Len(a))

BF_resetBlossoms(k, s) ==
    [s EXCEPT !.nblos = k,
              !.blos = Resize(s.blos, k, EmptyBlos),
              !.inblossom = BF_reset_prefix(s.inblossom, k, Iota(k)),
              !.blossombase = BF_reset_prefix(s.blossombase, k, Iota(k)),
              !.blossomparent = BF_reset_prefix(s.blossomparent, k, Fill(k, -1)),
              !.label = Fill(k, 0),
              !.labeledge = Fill(k, <<-1, -1>>),
              !.queue = <<>>]

RECURSIVE BF_label_roots(_, _, _)
BF_label_roots(k, s, v) ==
    IF v >= k THEN s
    ELSE IF At(s.mate, v) = -1 /\ At(s.label, At(s.inblossom, v)) = 0
    THEN BF_label_roots(k, BF_assignLabel(k, s, v, 1, -1), v + 1)
    ELSE BF_label_roots(k, s, v + 1)

RECURSIVE BF_expand_all(_, _, _)
BF_expand_all(k, s, b) ==
    IF s.hung \/ b >= s.nblos THEN s
    ELSE IF At(s.blos, b).childs # <<>> /\ At(s.blossomparent, b) = -1
    THEN BF_expand_all(k, BF_expandBlossom(k, s, b), b + 1)
    ELSE BF_expand_all(k, s, b + 1)

\* members after the constructor.  The last three fields are history, not
\* members: the number of addBlossom calls so far, whether one of them had a
\* non-trivial sub-blossom, and the deepest augmentBlossom frame stack.
BF_new(k) ==
    [mate |-> Fill(k, -1), blos |-> <<>>, nblos |-> k,
     inblossom |-> Iota(k),
     blossomparent |-> Fill(k, -1),
     blossombase |-> Iota(k),
     label |-> <<>>, labeledge |-> <<>>, queue |-> <<>>,
     augmented |-> FALSE, hung |-> FALSE, base |-> -1, fuel |-> 0,
     h_blossoms |-> 0, h_nested |-> FALSE, h_depth |-> 0]

\* BF_stage_s1: the rest of the block once s2 is known
BF_stage_s1_s2(k, s2) ==
    [BF_expand_all(k, s2, k) EXCEPT !.fuel = 0, !.base = -1]

\* the body of while (true) in solve up to the BFS loop: the blossom state
\* is reset and all free vertices are labelled as S-roots
BF_stage_reset(k, m) ==
    BF_label_roots(k,
        [BF_resetBlossoms(k, m) EXCEPT !.augmented = FALSE, !.fuel = MaxSteps],
        0)

\* BF_stage: the rest of the block once s1 is known
BF_stage_s1(k, g, s1) ==
    BF_stage_s1_s2(k, BF_bfs(k, g, s1))

\* one pass through the body of while (true) in solve
BF_stage(k, g, m) == BF_stage_s1(k, g, BF_stage_reset(k, m))

ToMate(k, seq) == [v \in Verts(k) |-> seq[v + 1]]

RECURSIVE FromMate(_, _)
FromMate(k, mate) == IF k <= 0 THEN <<>>
                     ELSE Append(FromMate(k - 1, mate), mate[k - 1])

BF_greedy(k, g, m, md) ==
    IF md = 1 THEN [m EXCEPT !.mate = FromMate(k, greedy_init(k, g, ToMate(k, @)))]
    ELSE IF md = 2
    THEN [m EXCEPT !.mate = FromMate(k, greedy_init_md(k, g, ToMate(k, @)))]
    ELSE m

BF_collect(k, m) == SortedPairs(MatchedPairs(k, ToMate(k, m.mate)))

RECURSIVE BF_loop(_, _, _, _)

\* BF_loop: the rest of the block once m1 is known
BF_loop_m1(k, g, bound, m1) ==
    IF m1.hung \/ ~m1.augmented THEN m1
    ELSE BF_loop(k, g, m1, bound - 1)

BF_loop(k, g, m, bound) ==
    IF bound = 0 THEN [m EXCEPT !.hung = TRUE]
    ELSE BF_loop_m1(k, g, bound, BF_stage(k, g, m))

(***************************************************************************)
(* MV-pure (micali_vazirani_pure.cpp).  nodes, levels and bridges are      *)
(* sequences read at index + 1; the CSR arrays edges/adj_start/deg are the *)
(* sorted adjacency lists g.                                               *)
(***************************************************************************)
DDFS_EMPTY == 0

DDFS_PETAL == 1

DDFS_PATH == 2

MVP_Node ==
    [preds |-> <<>>, pred_to |-> <<>>, hanging_bridges |-> <<>>,
     min_level |-> NIL, max_level |-> NIL, even_level |-> NIL,
     odd_level |-> NIL, match |-> NIL, bud |-> NIL, above |-> NIL,
     below |-> NIL, ddfs_green |-> NIL, ddfs_red |-> NIL,
     number_preds |-> 0, deleted |-> FALSE, visited |-> FALSE]

MVP_set_min_level(nd, level) ==
    IF level % 2 # 0 THEN [nd EXCEPT !.min_level = level, !.odd_level = level]
    ELSE [nd EXCEPT !.min_level = level, !.even_level = level]

MVP_set_max_level(nd, level) ==
    IF level % 2 # 0 THEN [nd EXCEPT !.max_level = level, !.odd_level = level]
    ELSE [nd EXCEPT !.max_level = level, !.even_level = level]

MVP_outer(nd) ==
    nd.even_level # NIL /\ (nd.odd_level = NIL \/ nd.even_level < nd.odd_level)

MVP_node_reset(nd) == [MVP_Node EXCEPT !.match = nd.match]

MVP_add_to_level(s, level, node) ==
    LET lv == IF level >= Len(s.levels) THEN Resize(s.levels, level + 1, <<>>)
              ELSE s.levels
    IN [s EXCEPT !.levels = Put(lv, level, Append(At(lv, level), node)),
                 !.todonum = @ + 1]

\* faulty variant: the bridge is filed one bucket too high
MVP_add_to_bridges_above(s, level, n1, n2) ==
    [s EXCEPT !.bridges = Put(IF level + 1 >= Len(@)
                             THEN Resize(@, level + 2, <<>>) ELSE @,
                             level + 1,
                             Append(IF level + 1 >= Len(@) THEN <<>>
                                    ELSE At(@, level + 1), <<n1, n2>>)),
              !.bridgenum = @ + 1]

MVP_add_to_bridges(s, level, n1, n2) ==
    LET br == IF level >= Len(s.bridges) THEN Resize(s.bridges, level + 1, <<>>)
              ELSE s.bridges
    IN [s EXCEPT !.bridges = Put(br, level, Append(At(br, level), <<n1, n2>>)),
                 !.bridgenum = @ + 1]

MVP_tenacity(nodes, n1, n2) ==
    IF At(nodes, n1).match = n2
    THEN IF At(nodes, n1).odd_level # NIL /\ At(nodes, n2).odd_level # NIL
         THEN At(nodes, n1).odd_level + At(nodes, n2).odd_level + 1
         ELSE NIL
    ELSE IF At(nodes, n1).even_level # NIL /\ At(nodes, n2).even_level # NIL
         THEN At(nodes, n1).even_level + At(nodes, n2).even_level + 1
         ELSE NIL

RECURSIVE MVP_bud_star(_, _)
MVP_bud_star(nodes, c) ==
    LET b == At(nodes, c).bud
    IN IF b = NIL THEN c ELSE MVP_bud_star(nodes, b)

RECURSIVE MVP_bud_star_includes(_, _, _)
MVP_bud_star_includes(nodes, c, goal) ==
    IF c = goal THEN TRUE
    ELSE LET b == At(nodes, c).bud
         IN IF b = NIL THEN FALSE ELSE MVP_bud_star_includes(nodes, b, goal)

\* the loop shared by max_match's prologue and reset(): free vertices
\* enter level 0, after an optional Node::reset
RECURSIVE MVP_seed_levels(_, _, _)
MVP_seed_levels(s, i, doReset) ==
    IF i >= Len(s.nodes) THEN s
    ELSE LET nd == IF doReset THEN MVP_node_reset(At(s.nodes, i))
                   ELSE At(s.nodes, i)
             s1 == [s EXCEPT !.nodes = Put(@, i, nd)]
         IN IF nd.match = NIL
            THEN LET s2 == MVP_add_to_level(s1, 0, i)
                 IN MVP_seed_levels(
                        [s2 EXCEPT !.nodes = Put(@, i, MVP_set_min_level(nd, 0))],
                        i + 1, doReset)
            ELSE MVP_seed_levels(s1, i + 1, doReset)

MVP_reset(s) ==
    MVP_seed_levels([s EXCEPT !.levels = Fill(Len(@), <<>>),
                              !.bridges = Fill(Len(@), <<>>),
                              !.bridgenum = 0, !.todonum = 0], 0, TRUE)

MVP_step_to(s, to, from, level0) ==
    LET level == level0 + 1
        tl == At(s.nodes, to).min_level
    IN IF tl = NIL \/ tl >= level
       THEN LET s1 == IF tl # level
                      THEN LET a == MVP_add_to_level(s, level, to)
                           IN [a EXCEPT !.nodes[to + 1] =
                                            MVP_set_min_level(@, level)]
                      ELSE s
                s2 == [s1 EXCEPT !.nodes[to + 1].preds = Append(@, from),
                                 !.nodes[to + 1].number_preds = @ + 1]
            IN [s2 EXCEPT !.nodes[from + 1].pred_to =
                   Append(@, <<to, Len(At(s2.nodes, to).preds) - 1>>)]
       ELSE LET ten == MVP_tenacity(s.nodes, to, from)
            IN IF ten = NIL
               THEN LET s1 == [s EXCEPT !.nodes[to + 1].hanging_bridges =
                                            Append(@, from)]
                    IN [s1 EXCEPT !.nodes[from + 1].hanging_bridges =
                                      Append(@, to)]
               ELSE MVP_add_to_bridges(s, (ten - 1) \div 2, to, from)

RECURSIVE MVP_min_edges(_, _, _, _, _)
MVP_min_edges(g, s, current, i, j) ==
    IF j > Len(g[current]) THEN s
    ELSE LET edge == g[current][j]
         IN IF edge # At(s.nodes, current).match
            THEN MVP_min_edges(g, MVP_step_to(s, edge, current, i), current, i, j + 1)
            ELSE MVP_min_edges(g, s, current, i, j + 1)

RECURSIVE MVP_min_loop(_, _, _, _)
MVP_min_loop(g, s, i, k) ==
    IF s.hung THEN s
    ELSE IF s.fuel = 0 THEN [s EXCEPT !.hung = TRUE]
    ELSE IF k >= Len(At(s.levels, i)) THEN s
    ELSE LET current == At(At(s.levels, i), k)
             t == [s EXCEPT !.todonum = @ - 1, !.fuel = @ - 1]
             m == At(t.nodes, current).match
         IN IF i % 2 = 0
            THEN MVP_min_loop(g, MVP_min_edges(g, t, current, i, 1), i, k + 1)
            ELSE IF m # NIL
            THEN MVP_min_loop(g, MVP_step_to(t, m, current, i), i, k + 1)
            ELSE MVP_min_loop(g, t, i, k + 1)

MVP_MIN(g, s, i) == IF i >= Len(s.levels) THEN s ELSE MVP_min_loop(g, s, i, 0)

RECURSIVE MVP_add_pred_to_stack(_, _, _, _)
MVP_add_pred_to_stack(preds, cur, stack, i) ==
    IF i > Len(preds) THEN stack
    ELSE MVP_add_pred_to_stack(preds, cur,
             IF preds[i] # NIL THEN Append(stack, <<cur, preds[i]>>) ELSE stack,
             i + 1)

MVP_edge_valid(e) == ~(e[1] = NIL /\ e[2] = NIL)

MVP_L(nodes, e) == At(nodes, MVP_bud_star(nodes, e[2])).min_level

\* prepare_next on the red (or green) edge Nr (Ng)
MVP_prepare_next(s, red) ==
    LET Nx == IF red THEN s.Nr ELSE s.Ng
        s1 == IF Nx[1] # NIL THEN [s EXCEPT !.nodes[Nx[1] + 1].below = Nx[2]]
              ELSE s
        Ny == <<Nx[1], MVP_bud_star(s1.nodes, Nx[2])>>
    IN IF red THEN [s1 EXCEPT !.Nr = Ny] ELSE [s1 EXCEPT !.Ng = Ny]

\* node_from_stack on (Nr, red_stack) or (Ng, green_stack)
MVP_node_from_stack(s, red) ==
    LET S == IF red THEN s.red_stack ELSE s.green_stack
        e == IF S # <<>> THEN S[Len(S)] ELSE <<NIL, NIL>>
        S1 == IF S # <<>> THEN SubSeq(S, 1, Len(S) - 1) ELSE S
    IN IF red THEN [s EXCEPT !.Nr = e, !.red_stack = S1]
       ELSE [s EXCEPT !.Ng = e, !.green_stack = S1]

\* MVP_step_into: the rest of the block once s2 is known
MVP_step_into_s2(red, s2) ==
    MVP_node_from_stack(s2, red)

\* MVP_step_into: the rest of the block once a is known
MVP_step_into_a(red, C, a) ==
    LET pr == At(a.nodes, C).preds
    IN IF red
       THEN [a EXCEPT !.R = C, !.h_red = @ \cup {C},
                !.red_stack = MVP_add_pred_to_stack(pr, C, @, 1)]
       ELSE [a EXCEPT !.G = C, !.h_green = @ \cup {C},
                !.green_stack = MVP_add_pred_to_stack(pr, C, @, 1)]

\* step_into(R, Nr, Sr, ...) when red, step_into(G, Ng, Sg, ...) otherwise
MVP_step_into(s, red) ==
    LET s1 == MVP_prepare_next(s, red)
        Nx == IF red THEN s1.Nr ELSE s1.Ng
        C == Nx[2]
    IN MVP_step_into_s2(red,
           IF ~At(s1.nodes, C).visited
           THEN MVP_step_into_a(red, C,
                    [s1 EXCEPT !.nodes[C + 1].above = Nx[1],
                               !.nodes[C + 1].visited = TRUE,
                               !.nodes[C + 1].ddfs_green = s1.green_top,
                               !.nodes[C + 1].ddfs_red = s1.red_top,
                               !.nodes_seen = Append(@, C)])
           ELSE s1)

\* for (int ri : nodes[rc].preds): the first ri with bud_star(ri) == tmp
RECURSIVE MVP_first_pred_into(_, _, _, _)
MVP_first_pred_into(nodes, preds, tmp, i) ==
    IF i > Len(preds) THEN NIL
    ELSE IF preds[i] # NIL /\ MVP_bud_star(nodes, preds[i]) = tmp THEN preds[i]
    ELSE MVP_first_pred_into(nodes, preds, tmp, i + 1)

\* the while (nodes[tmp].above != NIL) walk after a side is exhausted
RECURSIVE MVP_fix_below(_, _)
MVP_fix_below(s, tmp) ==
    IF s.hung THEN s
    ELSE IF s.fuel = 0 THEN [s EXCEPT !.hung = TRUE]
    ELSE IF At(s.nodes, tmp).above = NIL THEN s
    ELSE LET rc == At(s.nodes, tmp).above
             ri == MVP_first_pred_into(s.nodes, At(s.nodes, rc).preds, tmp, 1)
             s1 == IF ri # NIL THEN [s EXCEPT !.nodes[rc + 1].below = ri] ELSE s
         IN MVP_fix_below([s1 EXCEPT !.fuel = @ - 1], At(s1.nodes, tmp).above)

RECURSIVE MVP_ddfs_red_down(_)
MVP_ddfs_red_down(s) ==
    IF s.hung THEN s
    ELSE IF s.fuel = 0 THEN [s EXCEPT !.hung = TRUE]
    ELSE IF MVP_edge_valid(s.Nr) /\ MVP_L(s.nodes, s.Nr) > MVP_L(s.nodes, s.Ng)
    THEN MVP_ddfs_red_down(MVP_step_into([s EXCEPT !.fuel = @ - 1], TRUE))
    ELSE s

RECURSIVE MVP_ddfs_green_down(_)
MVP_ddfs_green_down(s) ==
    IF s.hung THEN s
    ELSE IF s.fuel = 0 THEN [s EXCEPT !.hung = TRUE]
    ELSE IF MVP_edge_valid(s.Ng) /\ MVP_L(s.nodes, s.Nr) < MVP_L(s.nodes, s.Ng)
    THEN MVP_ddfs_green_down(MVP_step_into([s EXCEPT !.fuel = @ - 1], FALSE))
    ELSE s

RECURSIVE MVP_ddfs_level(_)

\* MVP_ddfs_level_s1: the rest of the block once s3 is known
MVP_ddfs_level_s1_s3(s3) ==
    LET s4 == IF s3.hung \/ MVP_edge_valid(s3.Ng) THEN s3
              ELSE MVP_fix_below([s3 EXCEPT !.Ng = s3.green_before],
                                 s3.green_before[1])
    IN MVP_ddfs_level(s4)

\* MVP_ddfs_level: the rest of the block once s1 is known
MVP_ddfs_level_s1(s1) ==
    LET s2 == IF s1.hung \/ MVP_edge_valid(s1.Nr) THEN s1
              ELSE MVP_fix_below([s1 EXCEPT !.Nr = s1.red_before],
                                 s1.red_before[1])
    IN MVP_ddfs_level_s1_s3(MVP_ddfs_green_down(s2))

\* while (edge_valid(Nr) && edge_valid(Ng) && L(Nr) != L(Ng))
MVP_ddfs_level(s) ==
    IF s.hung THEN s
    ELSE IF s.fuel = 0 THEN [s EXCEPT !.hung = TRUE]
    ELSE IF MVP_edge_valid(s.Nr) /\ MVP_edge_valid(s.Ng)
            /\ MVP_L(s.nodes, s.Nr) # MVP_L(s.nodes, s.Ng)
    THEN MVP_ddfs_level_s1(MVP_ddfs_red_down([s EXCEPT !.fuel = @ - 1]))
    ELSE s

RECURSIVE MVP_ddfs_loop(_)

\* MVP_ddfs_loop: the rest of the block once s1 is known
MVP_ddfs_loop_s1(s1) ==
    IF s1.hung THEN s1
    ELSE IF MVP_bud_star(s1.nodes, s1.Nr[2])
            = MVP_bud_star(s1.nodes, s1.Ng[2])
    THEN IF s1.red_stack # <<>>
         THEN LET a == MVP_node_from_stack(
                           MVP_prepare_next(
                               [s1 EXCEPT !.red_before = s1.Nr], TRUE),
                           TRUE)
              IN MVP_ddfs_loop(IF MVP_edge_valid(a.Nr)
                               THEN [a EXCEPT !.R = a.Nr[1]]
                               ELSE [a EXCEPT !.Nr = a.red_before])
         ELSE IF s1.green_stack # <<>>
         THEN LET a == MVP_node_from_stack(
                           MVP_prepare_next(
                               [s1 EXCEPT !.green_before = s1.Ng], FALSE),
                           FALSE)
              IN MVP_ddfs_loop(IF MVP_edge_valid(a.Ng)
                               THEN [a EXCEPT !.G = a.Ng[1]]
                               ELSE [a EXCEPT !.Ng = a.green_before])
         ELSE LET a == MVP_prepare_next(MVP_prepare_next(s1, TRUE), FALSE)
              IN [a EXCEPT !.bottleneck = a.Nr[2], !.ddfs = DDFS_PETAL]
    ELSE MVP_ddfs_loop(MVP_step_into(MVP_step_into(s1, TRUE), FALSE))

\* the outer while of DDFS; the return value is left in field ddfs
MVP_ddfs_loop(s) ==
    IF s.hung THEN s
    ELSE IF s.fuel = 0 THEN [s EXCEPT !.hung = TRUE]
    ELSE IF s.R = NIL \/ s.G = NIL \/ At(s.nodes, s.R).min_level > 0
            \/ At(s.nodes, s.G).min_level > 0
    THEN MVP_ddfs_loop_s1(MVP_ddfs_level([s EXCEPT !.fuel = @ - 1]))
    ELSE [s EXCEPT !.ddfs = DDFS_PATH]

\* faulty variant: the test for two tops in one blossom is missing
MVP_DDFS_untested(s, green_top, red_top) ==
    LET s0 == [s EXCEPT !.nodes_seen = <<>>, !.bottleneck = NIL,
                        !.red_stack = <<>>, !.green_stack = <<>>,
                        !.green_top = green_top, !.red_top = red_top,
                        !.h_red = {}, !.h_green = {}]
    IN IF At(s0.nodes, green_top).min_level = 0
          /\ At(s0.nodes, red_top).min_level = 0
       THEN [s0 EXCEPT !.ddfs = DDFS_PATH]
       ELSE MVP_ddfs_loop([s0 EXCEPT !.R = NIL, !.G = NIL,
                                     !.Ng = <<NIL, green_top>>,
                                     !.Nr = <<NIL, red_top>>,
                                     !.red_before = <<NIL, NIL>>,
                                     !.green_before = <<NIL, NIL>>])

MVP_DDFS(s, green_top, red_top) ==
    LET s0 == [s EXCEPT !.nodes_seen = <<>>, !.bottleneck = NIL,
                        !.red_stack = <<>>, !.green_stack = <<>>,
                        !.green_top = green_top, !.red_top = red_top,
                        !.h_red = {}, !.h_green = {}]
    IN IF MVP_bud_star(s0.nodes, red_top) = MVP_bud_star(s0.nodes, green_top)
       THEN [s0 EXCEPT !.ddfs = DDFS_EMPTY]
       ELSE IF At(s0.nodes, green_top).min_level = 0
               /\ At(s0.nodes, red_top).min_level = 0
       THEN [s0 EXCEPT !.ddfs = DDFS_PATH]
       ELSE MVP_ddfs_loop([s0 EXCEPT !.R = NIL, !.G = NIL,
                                     !.Ng = <<NIL, green_top>>,
                                     !.Nr = <<NIL, red_top>>,
                                     !.red_before = <<NIL, NIL>>,
                                     !.green_before = <<NIL, NIL>>])

ReverseFrom(path, before) ==
    SubSeq(path, 1, before) \o Reverse(SubSeq(path, before + 1, Len(path)))

\* the walks append to path_found and leave their return value in field cur
RECURSIVE MVP_walk_blossom(_, _)
RECURSIVE MVP_walk_blossom_down_loop(_, _, _, _)
RECURSIVE MVP_walk_blossom_up(_, _)
RECURSIVE MVP_walk_until(_, _, _)
RECURSIVE MVP_jump_bridge(_, _)

MVP_walk_blossom_down(s, cur, before) ==
    MVP_walk_blossom_down_loop(s, cur, IF before = NIL THEN cur ELSE before,
                               At(s.nodes, cur).bud)

\* MVP_walk_blossom: the rest of the block once s2 is known
MVP_walk_blossom_s2(s1, s2) ==
    IF s2.hung THEN s2
    ELSE MVP_walk_blossom_down(s2, s2.cur, s1.cur)

MVP_walk_blossom(s, cur) ==
    IF s.hung THEN s
    ELSE IF s.fuel = 0 THEN [s EXCEPT !.hung = TRUE]
    ELSE LET t == [s EXCEPT !.fuel = @ - 1]
         IN IF MVP_outer(At(t.nodes, cur)) THEN MVP_walk_blossom_down(t, cur, NIL)
            ELSE LET s1 == MVP_walk_blossom_up(t, cur)
                 IN IF s1.hung THEN s1
                    ELSE MVP_walk_blossom_s2(s1, MVP_jump_bridge(s1, s1.cur))

\* MVP_walk_blossom_down_loop: the rest of the block once s1 is known
MVP_walk_blossom_down_loop_s1(before, b, s1) ==
    MVP_walk_blossom_down_loop(s1, s1.cur, before, b)

MVP_walk_blossom_down_loop(s, cur, before, b) ==
    IF s.hung THEN s
    ELSE IF s.fuel = 0 THEN [s EXCEPT !.hung = TRUE]
    ELSE IF cur # NIL /\ cur # b
    THEN LET t == [s EXCEPT !.fuel = @ - 1]
         IN IF At(t.nodes, cur).ddfs_green # At(t.nodes, before).ddfs_green
               \/ At(t.nodes, cur).ddfs_red # At(t.nodes, before).ddfs_red
            THEN MVP_walk_blossom_down_loop_s1(before, b,
                     MVP_walk_blossom(t, cur))
            ELSE MVP_walk_blossom_down_loop(
                     [t EXCEPT !.path_found = Append(@, cur)],
                     At(t.nodes, cur).below, before, b)
    ELSE [s EXCEPT !.cur = cur]

\* while (b != cur) b = walk_blossom(b)
MVP_walk_until(s, b, cur) ==
    IF s.hung THEN s
    ELSE IF s.fuel = 0 THEN [s EXCEPT !.hung = TRUE]
    ELSE IF b # cur
    THEN LET s1 == MVP_walk_blossom([s EXCEPT !.fuel = @ - 1], b)
         IN MVP_walk_until(s1, s1.cur, cur)
    ELSE s

MVP_jump_bridge(s, cur) ==
    LET nd == At(s.nodes, cur)
    IN IF nd.ddfs_green = cur THEN [s EXCEPT !.cur = nd.ddfs_red]
       ELSE IF nd.ddfs_red = cur THEN [s EXCEPT !.cur = nd.ddfs_green]
       ELSE LET before == Len(s.path_found)
                viaGreen == MVP_bud_star_includes(s.nodes, nd.ddfs_green, cur)
                s1 == MVP_walk_until(s, IF viaGreen THEN nd.ddfs_green
                                        ELSE nd.ddfs_red, cur)
            IN IF s1.hung THEN s1
               ELSE [s1 EXCEPT !.path_found = ReverseFrom(@, before),
                               !.cur = IF viaGreen
                                       THEN At(s1.nodes, cur).ddfs_red
                                       ELSE At(s1.nodes, cur).ddfs_green]

MVP_walk_blossom_up(s, cur) ==
    IF s.hung THEN s
    ELSE IF s.fuel = 0 THEN [s EXCEPT !.hung = TRUE]
    ELSE LET t == [s EXCEPT !.path_found = Append(@, cur), !.fuel = @ - 1]
             ab == At(t.nodes, cur).above
         IN IF ab = NIL THEN [t EXCEPT !.cur = cur]
            ELSE LET b == At(t.nodes, ab).below
                     before == Len(t.path_found)
                 IN IF b # cur /\ MVP_bud_star_includes(t.nodes, b, cur)
                    THEN LET s1 == MVP_walk_until(t, b, cur)
                         IN IF s1.hung THEN s1
                            ELSE MVP_walk_blossom_up(
                                     [s1 EXCEPT !.path_found =
                                                    ReverseFrom(@, before)],
                                     At(s1.nodes, cur).above)
                    ELSE MVP_walk_blossom_up(t, ab)

RECURSIVE MVP_walk_down_path(_, _)

\* MVP_walk_down_path: the rest of the block once s1 is known
MVP_walk_down_path_s1(s1) ==
    MVP_walk_down_path(s1, s1.cur)

MVP_walk_down_path(s, cur) ==
    IF s.hung THEN s
    ELSE IF s.fuel = 0 THEN [s EXCEPT !.hung = TRUE]
    ELSE IF cur = NIL THEN s
    ELSE LET t == [s EXCEPT !.fuel = @ - 1]
         IN IF At(t.nodes, cur).bud # NIL
            THEN MVP_walk_down_path_s1(MVP_walk_blossom(t, cur))
            ELSE MVP_walk_down_path([t EXCEPT !.path_found = Append(@, cur)],
                                    At(t.nodes, cur).below)

\* MVP_find_path: the rest of the block once s1 is known
MVP_find_path_s1(n2, s1) ==
    IF s1.hung THEN s1
    ELSE MVP_walk_down_path([s1 EXCEPT !.path_found = Reverse(@)], n2)

MVP_find_path(s, n1, n2) ==
    MVP_find_path_s1(n2,
        MVP_walk_down_path([s EXCEPT !.path_found = <<>>], n1))

RECURSIVE MVP_augment_pairs(_, _, _)
MVP_augment_pairs(nodes, path, i) ==
    IF i + 1 >= Len(path) THEN nodes
    ELSE LET n1 == path[i + 1]
             n2 == path[i + 2]
             a == [nodes EXCEPT ![n1 + 1].match = n2]
         IN MVP_augment_pairs([a EXCEPT ![n2 + 1].match = n1], path, i + 2)

MVP_augment_path(s) ==
    [s EXCEPT !.nodes = MVP_augment_pairs(@, s.path_found, 0),
              !.matchnum = @ + 1]

\* for (auto& itt : nodes[current].pred_to) of remove_path
RECURSIVE MVP_remove_preds(_, _, _)
MVP_remove_preds(s, pt, i) ==
    IF i > Len(pt) THEN s
    ELSE LET to == pt[i][1]
             nd == At(s.nodes, to)
         IN IF ~nd.deleted
            THEN LET s1 == [s EXCEPT !.nodes[to + 1].preds[pt[i][2] + 1] = NIL,
                                     !.nodes[to + 1].number_preds = @ - 1]
                 IN MVP_remove_preds(
                        IF At(s1.nodes, to).number_preds <= 0
                        THEN [s1 EXCEPT !.path_found = Append(@, to)] ELSE s1,
                        pt, i + 1)
            ELSE MVP_remove_preds(s, pt, i + 1)

RECURSIVE MVP_remove_path(_)
MVP_remove_path(s) ==
    IF s.hung THEN s
    ELSE IF s.fuel = 0 THEN [s EXCEPT !.hung = TRUE]
    ELSE IF s.path_found = <<>> THEN s
    ELSE LET current == s.path_found[Len(s.path_found)]
             t == [s EXCEPT !.path_found = SubSeq(@, 1, Len(@) - 1),
                            !.fuel = @ - 1]
         IN IF ~At(t.nodes, current).deleted
            THEN MVP_remove_path(
                     MVP_remove_preds(
                         [t EXCEPT !.nodes[current + 1].deleted = TRUE],
                         At(t.nodes, current).pred_to, 1))
            ELSE MVP_remove_path(t)

\* for (int hanging : nodes[itt].hanging_bridges) of the petal branch
RECURSIVE MVP_petal_hanging(_, _, _, _)
MVP_petal_hanging(s, itt, hb, i) ==
    IF i > Len(hb) THEN s
    ELSE LET ten == MVP_tenacity(s.nodes, itt, hb[i])
         IN MVP_petal_hanging(
                IF ten # NIL
                THEN MVP_add_to_bridges(s, (ten - 1) \div 2, itt, hb[i]) ELSE s,
                itt, hb, i + 1)

\* for (int itt : last_ddfs.nodes_seen) of the petal branch
RECURSIVE MVP_petal(_, _, _, _)
MVP_petal(s, b, current_ten, i) ==
    IF i > Len(s.nodes_seen) THEN s
    ELSE LET itt == s.nodes_seen[i]
             nd == MVP_set_max_level([At(s.nodes, itt) EXCEPT !.bud = b],
                       current_ten - At(s.nodes, itt).min_level)
             s1 == MVP_add_to_level([s EXCEPT !.nodes = Put(@, itt, nd)],
                                    nd.max_level, itt)
         IN MVP_petal(MVP_petal_hanging(s1, itt, nd.hanging_bridges, 1),
                      b, current_ten, i + 1)

\* MVP_max_bridge_d: the rest of the block once p is known
MVP_max_bridge_d_p(p) ==
    IF p.hung THEN p
    ELSE IF Len(p.nodes) \div 2 <= p.matchnum + 1
    THEN [MVP_augment_path(p) EXCEPT !.found = TRUE]
    ELSE [MVP_remove_path(MVP_augment_path(p)) EXCEPT !.found = TRUE]

\* MVP_max_bridge: the rest of the block once d is known
MVP_max_bridge_d(i, n1, n2, d) ==
    IF d.hung \/ d.ddfs = DDFS_EMPTY THEN d
    ELSE IF d.ddfs = DDFS_PATH
    THEN MVP_max_bridge_d_p(MVP_find_path(d, n1, n2))
    ELSE MVP_petal(d, d.bottleneck, i * 2 + 1, 1)

\* the body of for (size_t j ...) of MAX(i) for the bridge bridges[i][j]
MVP_max_bridge(s, i, j) ==
    LET current == At(At(s.bridges, i), j)
        t == [s EXCEPT !.bridgenum = @ - 1, !.fuel = @ - 1]
    IN IF At(t.nodes, current[1]).deleted \/ At(t.nodes, current[2]).deleted
       THEN t
       ELSE MVP_max_bridge_d(i, current[1], current[2],
                             MVP_DDFS(t, current[1], current[2]))

\* the body has left MAX with return true: a path was augmented and the
\* matching has nodes.size() / 2 pairs
MVP_max_returned(s, t) ==
    ~t.hung /\ t.matchnum > s.matchnum /\ Len(t.nodes) \div 2 <= t.matchnum

RECURSIVE MVP_max_loop(_, _, _)

\* MVP_max_loop: the rest of the block once t is known
MVP_max_loop_t(s, i, j, t) ==
    IF MVP_max_returned(s, t) THEN t ELSE MVP_max_loop(t, i, j + 1)

\* for (size_t j ...) of MAX(i); the return value is left in field found
MVP_max_loop(s, i, j) ==
    IF s.hung THEN s
    ELSE IF s.fuel = 0 THEN [s EXCEPT !.hung = TRUE]
    ELSE IF j >= Len(At(s.bridges, i)) THEN s
    ELSE MVP_max_loop_t(s, i, j, MVP_max_bridge(s, i, j))

\* faulty variant: no bridge is processed
MVP_MAX_idle(s, i) == [s EXCEPT !.found = FALSE]

MVP_MAX(s, i) ==
    IF i >= Len(s.bridges) THEN [s EXCEPT !.found = FALSE]
    ELSE MVP_max_loop([s EXCEPT !.found = FALSE], i, 0)

\* the for-loop of max_match_phase goes on at level i
MVP_phase_goes_on(s, i) ==
    /\ i < Len(s.nodes) \div 2 + 1 /\ ~s.found
    /\ ~(s.todonum <= 0 /\ s.bridgenum <= 0)

\* max_match_phase: the return value is left in field found
RECURSIVE MVP_phase_loop(_, _, _)
MVP_phase_loop(g, s, i) ==
    IF s.hung THEN s
    ELSE IF ~(i < Len(s.nodes) \div 2 + 1 /\ ~s.found) THEN s
    ELSE IF s.todonum <= 0 /\ s.bridgenum <= 0 THEN [s EXCEPT !.found = FALSE]
    ELSE MVP_phase_loop(g, MVP_MAX(MVP_MIN(g, s, i), i), i + 1)

MVP_max_match_phase(g, s) ==
    MVP_phase_loop(g, [s EXCEPT !.found = FALSE, !.fuel = MaxSteps], 0)

\* MVGraph after build()
MVP_new(k) ==
    [nodes |-> Fill(k, MVP_Node), levels |-> <<>>, bridges |-> <<>>,
     green_stack |-> <<>>, red_stack |-> <<>>, path_found |-> <<>>,
     nodes_seen |-> <<>>, bottleneck |-> NIL,
     matchnum |-> 0, bridgenum |-> 0, todonum |-> 0,
     found |-> FALSE, hung |-> FALSE, fuel |-> 0, ddfs |-> DDFS_EMPTY,
     cur |-> NIL, R |-> NIL, G |-> NIL, Nr |-> <<NIL, NIL>>,
     Ng |-> <<NIL, NIL>>, red_before |-> <<NIL, NIL>>,
     green_before |-> <<NIL, NIL>>, green_top |-> NIL, red_top |-> NIL,
     h_red |-> {}, h_green |-> {}]

\* locals of the calls are cleared when a phase returns
MVP_locals_cleared(s) ==
    [s EXCEPT !.fuel = 0, !.ddfs = DDFS_EMPTY, !.cur = NIL, !.R = NIL,
              !.G = NIL, !.Nr = <<NIL, NIL>>, !.Ng = <<NIL, NIL>>,
              !.red_before = <<NIL, NIL>>, !.green_before = <<NIL, NIL>>,
              !.green_top = NIL, !.red_top = NIL,
              !.h_red = {}, !.h_green = {}]

\* max_match up to and including the first max_match_phase
MVP_first_phase(g, m) ==
    MVP_locals_cleared(MVP_max_match_phase(g, MVP_seed_levels(m, 0, FALSE)))

\* one pass through the body of the while loop of max_match
MVP_next_phase(g, m) ==
    MVP_locals_cleared(MVP_max_match_phase(g, MVP_reset(m)))

MVP_continue(m) == Len(m.nodes) \div 2 > m.matchnum /\ m.found

RECURSIVE MVP_loop(_, _, _)
MVP_loop(g, m, bound) ==
    IF m.hung \/ ~MVP_continue(m) THEN m
    ELSE IF bound = 0 THEN [m EXCEPT !.hung = TRUE]
    ELSE MVP_loop(g, MVP_next_phase(g, m), bound - 1)

MVP_max_match(g, m, bound) == MVP_loop(g, MVP_first_phase(g, m), bound)

RECURSIVE MVP_match_array(_, _)
MVP_match_array(nodes, i) ==
    IF i > Len(nodes) THEN <<>> ELSE <<nodes[i].match>> \o MVP_match_array(nodes, i + 1)

RECURSIVE MVP_set_match(_, _, _)
MVP_set_match(nodes, mate, i) ==
    IF i > Len(nodes) THEN nodes
    ELSE MVP_set_match([nodes EXCEPT ![i].match = mate[i - 1]], mate, i + 1)

RECURSIVE MVP_count_matched(_, _)
MVP_count_matched(nodes, i) ==
    IF i > Len(nodes) THEN 0
    ELSE (IF nodes[i].match # NIL /\ nodes[i].match > i - 1 THEN 1 ELSE 0)
         + MVP_count_matched(nodes, i + 1)

\* greedy_init / greedy_init_md: same scans as the array versions, over
\* nodes[].match, with matchnum counting the pairs made
MVP_greedy(k, g, m, md) ==
    IF md = 0 THEN m
    ELSE LET mate0 == ToMate(k, MVP_match_array(m.nodes, 1))
             mate1 == IF md = 1 THEN greedy_init(k, g, mate0)
                      ELSE greedy_init_md(k, g, mate0)
             nodes1 == MVP_set_match(m.nodes, mate1, 1)
         IN [m EXCEPT !.nodes = nodes1,
                      !.matchnum = @ + MVP_count_matched(nodes1, 1)]

\* get_matching: i ascending, pairs (i, match) with match > i
RECURSIVE MVP_get_matching(_, _)
MVP_get_matching(nodes, i) ==
    IF i > Len(nodes) THEN <<>>
    ELSE (IF nodes[i].match # NIL /\ nodes[i].match > i - 1
          THEN <<<<i - 1, nodes[i].match>>>> ELSE <<>>)
         \o MVP_get_matching(nodes, i + 1)

(***************************************************************************)
(* GABOW-SCALING (gabow_optimized-v1.cpp).  All vectors are sequences read *)
(* at index + 1.                                                           *)
(***************************************************************************)
\* find_base / find_dbase / find_db2: path-halving find on a parent vector;
\* returns the halved vector and the root
RECURSIVE GO1_find(_, _)
GO1_find(par, v) ==
    IF At(par, v) = v THEN [par |-> par, r |-> v]
    ELSE LET p2 == Put(par, v, At(par, At(par, v)))
         IN GO1_find(p2, At(p2, v))

GO1_find_base(s, v) ==
    LET f == GO1_find(s.base_par, v) IN [s EXCEPT !.base_par = f.par, !.r = f.r]

GO1_find_dbase(s, v) ==
    LET f == GO1_find(s.dbase_par, v) IN [s EXCEPT !.dbase_par = f.par, !.r = f.r]

GO1_find_db2(s, v) ==
    LET f == GO1_find(s.dbase2_par, v) IN [s EXCEPT !.dbase2_par = f.par, !.r = f.r]

GO1_union_base(s, a, b, r) ==
    LET s1 == GO1_find_base(s, a)
        s2 == GO1_find_base(s1, b)
    IN [s2 EXCEPT !.base_par = Put(Put(@, s1.r, r), s2.r, r)]

GO1_union_dbase(s, a, b) ==
    LET s1 == GO1_find_dbase(s, a)
        s2 == GO1_find_dbase(s1, b)
    IN IF s1.r # s2.r THEN [s2 EXCEPT !.dbase_par = Put(@, s1.r, s2.r)] ELSE s2

\* faulty variant: v is made its own parent, its old root is left alone
GO1_make_rep_dbase_split(s, v) ==
    [s EXCEPT !.dbase_par = Put(@, v, v)]

GO1_make_rep_dbase(s, v) ==
    LET s1 == GO1_find_dbase(s, v)
    IN IF s1.r # v THEN [s1 EXCEPT !.dbase_par = Put(Put(@, s1.r, v), v, v)]
       ELSE s1

GO1_union_db2(s, a, b) ==
    LET s1 == GO1_find_db2(s, a)
        s2 == GO1_find_db2(s1, b)
    IN IF s1.r # s2.r THEN [s2 EXCEPT !.dbase2_par = Put(@, s1.r, s2.r)] ELSE s2

GO1_make_rep_db2(s, v) ==
    LET s1 == GO1_find_db2(s, v)
    IN IF s1.r # v THEN [s1 EXCEPT !.dbase2_par = Put(Put(@, s1.r, v), v, v)]
       ELSE s1

GO1_is_root(s, h) ==
    At(s.mate, h) = NIL \/ At(s.parent, At(s.mate, h)) = NIL

RECURSIVE GO1_lca_climb(_, _, _, _)

\* GO1_lca_climb: the rest of the block once s1 is known
GO1_lca_climb_s1(ep, hy, hyr, s1) ==
    LET s2 == IF ~hyr
              THEN LET a == GO1_find_base(s1,
                                At(s1.parent, At(s1.mate, hy)))
                   IN [a EXCEPT !.lca_tag2 = Put(@, a.r, ep),
                                !.hy = a.r]
              ELSE [s1 EXCEPT !.hy = hy]
    IN GO1_lca_climb([s2 EXCEPT !.fuel = @ - 1], ep, s2.hx, s2.hy)

\* the while (true) of find_lca; the result is left in field lca
GO1_lca_climb(s, ep, hx, hy) ==
    IF s.hung THEN s
    ELSE IF s.fuel = 0 THEN [s EXCEPT !.hung = TRUE]
    ELSE IF At(s.lca_tag1, hy) = ep THEN [s EXCEPT !.lca = hy]
    ELSE IF At(s.lca_tag2, hx) = ep THEN [s EXCEPT !.lca = hx]
    ELSE LET hxr == GO1_is_root(s, hx)
             hyr == GO1_is_root(s, hy)
         IN IF hxr /\ hyr THEN [s EXCEPT !.lca = NIL]
            ELSE GO1_lca_climb_s1(ep, hy, hyr,
                     IF ~hxr
                     THEN LET a == GO1_find_base(s,
                                       At(s.parent, At(s.mate, hx)))
                          IN [a EXCEPT !.lca_tag1 = Put(@, a.r, ep),
                                       !.hx = a.r]
                     ELSE [s EXCEPT !.hx = hx])

GO1_find_lca(s, u, v) ==
    LET ep == s.lca_epoch + 1
        s1 == GO1_find_base([s EXCEPT !.lca_epoch = ep], u)
        s2 == GO1_find_base(s1, v)
    IN GO1_lca_climb([s2 EXCEPT !.lca_tag1 = Put(@, s1.r, ep),
                                !.lca_tag2 = Put(@, s2.r, ep)],
                     ep, s1.r, s2.r)

\* the scan of a newly EVEN vertex mv: edges to unlabeled bases are queued
\* at level lu, edges to EVEN bases at level le
RECURSIVE GO1_scan_even(_, _, _, _, _, _)
GO1_scan_even(g, s, mv, lu, le, i) ==
    IF i > Len(g[mv]) THEN s
    ELSE LET w == g[mv][i]
         IN IF w = At(s.mate, mv) THEN GO1_scan_even(g, s, mv, lu, le, i + 1)
            ELSE LET s1 == GO1_find_base(s, w)
                     lb == At(s1.label, s1.r)
                     lv == IF lb = UNLABELED THEN lu ELSE le
                 IN IF lb = UNLABELED \/ lb = EVEN
                    THEN GO1_scan_even(g,
                             [s1 EXCEPT !.level_queue =
                                 Put(@, lv, Append(At(@, lv), <<mv, w>>))],
                             mv, lu, le, i + 1)
                    ELSE GO1_scan_even(g, s1, mv, lu, le, i + 1)

RECURSIVE GO1_shrink_walk(_, _, _, _, _, _)

\* GO1_shrink_walk_s1_s2: the rest of the block once s4 is known
GO1_shrink_walk_s1_s2_s4(g, b, x, y, mv, s4) ==
    LET s5 == GO1_find_base(s4, At(s4.parent, mv))
    IN GO1_shrink_walk(g, s5, b, x, y, s5.r)

\* GO1_shrink_walk_s1: the rest of the block once s2 is known
GO1_shrink_walk_s1_s2(g, b, x, y, mv, s2) ==
    LET s3 == [s2 EXCEPT !.dunions = Append(@, <<mv, b>>),
                         !.base_par = Put(@, b, b),
                         !.source_bridge = Put(@, mv, x),
                         !.target_bridge = Put(@, mv, y),
                         !.fuel = @ - 1]
    IN GO1_shrink_walk_s1_s2_s4(g, b, x, y, mv,
           GO1_scan_even(g, s3, mv, s3.Delta + 1, s3.Delta, 1))

\* GO1_shrink_walk: the rest of the block once s1 is known
GO1_shrink_walk_s1(g, b, x, y, v, s1) ==
    LET mv == At(s1.mate, v)
    IN GO1_shrink_walk_s1_s2(g, b, x, y, mv,
           GO1_union_base([s1 EXCEPT !.dunions = Append(@, <<v, b>>)],
                          mv, b, b))

GO1_shrink_walk(g, s, b, x, y, v) ==
    IF s.hung THEN s
    ELSE IF s.fuel = 0 THEN [s EXCEPT !.hung = TRUE]
    ELSE IF v = b THEN [s EXCEPT !.dunions = Append(@, <<b, b>>)]
    ELSE GO1_shrink_walk_s1(g, b, x, y, v, GO1_union_base(s, v, b, b))

\* faulty variant: the blossom is not contracted
GO1_shrink_path_skipped(g, s, b, x, y) == s

GO1_shrink_path(g, s, b, x, y) ==
    LET s1 == GO1_find_base(s, x) IN GO1_shrink_walk(g, s1, b, x, y, s1.r)

\* the roots loop of phase_1
RECURSIVE GO1_init_roots(_, _, _)
GO1_init_roots(g, s, v) ==
    IF v >= Len(s.mate) THEN s
    ELSE IF At(s.mate, v) = NIL
    THEN GO1_init_roots(g,
             GO1_scan_even(g, [s EXCEPT !.label = Put(@, v, EVEN),
                                        !.in_tree = Put(@, v, TRUE),
                                        !.tree_nodes = Append(@, v)],
                           v, 1, 0, 1),
             v + 1)
    ELSE GO1_init_roots(g, s, v + 1)

\* GO1_drain_edge: the rest of the block once s3 is known
GO1_drain_bz_s3(g, z, u, s3) ==
    IF s3.hung THEN s3
    ELSE IF s3.lca # NIL
    THEN GO1_shrink_path(g,
             GO1_shrink_path(g, s3, s3.lca, z, u),
             s3.lca, u, z)
    ELSE [s3 EXCEPT !.found_sap = TRUE]

\* GO1_drain_edge: the rest of the block once bz is known
GO1_drain_bz(g, s1, s2, sw, z, u, bz) ==
    LET bu == IF sw THEN s1.r ELSE s2.r
    IN IF bz = bu \/ At(s2.label, bz) # EVEN THEN s2
       ELSE IF u = At(s2.mate, z) \/ At(s2.label, bu) = ODD THEN s2
       ELSE IF At(s2.label, bu) = UNLABELED
       THEN LET mv == At(s2.mate, u)
            IN IF mv = NIL THEN s2
               ELSE GO1_scan_even(g,
                        [s2 EXCEPT !.parent = Put(Put(@, u, z), mv, u),
                                   !.label = Put(Put(@, u, ODD), mv, EVEN),
                                   !.in_tree = Put(Put(@, u, TRUE), mv, TRUE),
                                   !.tree_nodes = Append(Append(@, u), mv)],
                        mv, s2.Delta + 1, s2.Delta, 1)
       ELSE IF At(s2.label, bu) = EVEN
       THEN GO1_drain_bz_s3(g, z, u, GO1_find_lca(s2, z, u))
       ELSE s2

\* the body of while (!level_queue[Delta].empty()): one edge popped from
\* the back and processed
GO1_drain_edge(g, s) ==
    LET q == At(s.level_queue, s.Delta)
        e == q[Len(q)]
        t == [s EXCEPT !.level_queue = Put(@, s.Delta, SubSeq(q, 1, Len(q) - 1)),
                       !.fuel = @ - 1]
        s1 == GO1_find_base(t, e[1])
        s2 == GO1_find_base(s1, e[2])
        sw == At(s2.label, s1.r) # EVEN
        z == IF sw THEN e[2] ELSE e[1]
        u == IF sw THEN e[1] ELSE e[2]
    IN GO1_drain_bz(g, s1, s2, sw, z, u, IF sw THEN s2.r ELSE s1.r)

\* while (!level_queue[Delta].empty())
RECURSIVE GO1_drain(_, _)
GO1_drain(g, s) ==
    IF s.hung THEN s
    ELSE IF s.fuel = 0 THEN [s EXCEPT !.hung = TRUE]
    ELSE IF At(s.level_queue, s.Delta) = <<>> THEN s
    ELSE GO1_drain(g, GO1_drain_edge(g, s))

\* Build H, first loop: contracted_into and mateH reset
RECURSIVE GO1_build_H(_, _)
GO1_build_H(s, i) ==
    IF i > Len(s.tree_nodes) THEN s
    ELSE LET v == s.tree_nodes[i]
             s1 == GO1_find_dbase(s, v)
         IN GO1_build_H(
                [s1 EXCEPT !.contracted_into =
                               Put(@, s1.r, Append(At(@, s1.r), v)),
                           !.mateH = Put(@, v, NIL)],
                i + 1)

\* Build H, second loop: mateH between different dbase components
RECURSIVE GO1_build_mateH(_, _)
GO1_build_mateH(s, i) ==
    IF i > Len(s.tree_nodes) THEN s
    ELSE LET u == s.tree_nodes[i]
             s1 == GO1_find_dbase(s, u)
             mv == At(s1.mate, u)
         IN IF mv # NIL /\ At(s1.in_tree, mv)
            THEN LET s2 == GO1_find_dbase(s1, mv)
                 IN IF s1.r # s2.r
                    THEN GO1_build_mateH(
                             [s2 EXCEPT !.mateH = Put(Put(@, s1.r, s2.r),
                                                      s2.r, s1.r)],
                             i + 1)
                    ELSE GO1_build_mateH(s2, i + 1)
            ELSE GO1_build_mateH(s1, i + 1)

\* faulty variant: the recorded unions are discarded
GO1_run_dunions_dropped(s, i) == [s EXCEPT !.dunions = <<>>]

RECURSIVE GO1_run_dunions(_, _)
GO1_run_dunions(s, i) ==
    IF i > Len(s.dunions) THEN [s EXCEPT !.dunions = <<>>]
    ELSE LET d == s.dunions[i]
         IN GO1_run_dunions(IF d[1] = d[2] THEN GO1_make_rep_dbase(s, d[1])
                            ELSE GO1_union_dbase(s, d[1], d[2]),
                            i + 1)

RECURSIVE GO1_delta_loop(_, _)

\* GO1_delta_loop: the rest of the block once s1 is known
GO1_delta_loop_s1(g, s1) ==
    IF s1.hung THEN s1
    ELSE IF s1.found_sap THEN GO1_build_mateH(GO1_build_H(s1, 1), 1)
    ELSE GO1_delta_loop(g,
             [GO1_run_dunions(s1, 1) EXCEPT !.Delta = @ + 1])

\* while (Delta <= n) of phase_1; the return value is left in found_sap
GO1_delta_loop(g, s) ==
    IF s.hung THEN s
    ELSE IF s.Delta > Len(s.mate) THEN s
    ELSE GO1_delta_loop_s1(g, GO1_drain(g, s))

\* phase_1 up to the level loop: the search state is reset and the free
\* vertices become EVEN roots
GO1_phase_1_reset(g, m) ==
    GO1_init_roots(g,
        [m EXCEPT !.Delta = 0, !.tree_nodes = <<>>,
                  !.level_queue = Fill(Len(@), <<>>),
                  !.dunions = <<>>,
                  !.base_par = Iota(Len(m.mate)),
                  !.dbase_par = Iota(Len(m.mate)),
                  !.label = Fill(Len(m.mate), UNLABELED),
                  !.parent = Fill(Len(m.mate), NIL),
                  !.source_bridge = Fill(Len(m.mate), NIL),
                  !.target_bridge = Fill(Len(m.mate), NIL),
                  !.in_tree = Fill(Len(m.mate), FALSE),
                  !.found_sap = FALSE, !.fuel = MaxSteps],
        0)

GO1_phase_1(g, m) == GO1_delta_loop(g, GO1_phase_1_reset(g, m))

GO1_Frame(vh) == [vh |-> vh, ci_idx |-> 0, adj_idx |-> 0, v |-> -1]

\* rep[rep[ps] == x ? pt : ps]
GO1_other_end(s, ps, pt, x) ==
    At(s.rep, IF At(s.rep, ps) = x THEN pt ELSE ps)

\* the while (cur != bh) walk of the blossom step of find_apHG
RECURSIVE GO1_blossom_walk(_, _, _, _, _)
GO1_blossom_walk(s, cur, bh, tmp, endpoints) ==
    IF s.hung THEN [s |-> s, tmp |-> tmp, endpoints |-> endpoints]
    ELSE IF s.fuel = 0
    THEN [s |-> [s EXCEPT !.hung = TRUE], tmp |-> tmp, endpoints |-> endpoints]
    ELSE IF cur = bh THEN [s |-> s, tmp |-> tmp, endpoints |-> endpoints]
    ELSE LET mc == At(s.mateH, cur)
             next == GO1_other_end(s, At(s.parentH_src, mc),
                                   At(s.parentH_tgt, mc), mc)
             s1 == GO1_find_db2([s EXCEPT !.fuel = @ - 1], next)
         IN GO1_blossom_walk(s1, s1.r, bh, Append(tmp, mc),
                             Append(Append(endpoints, cur), mc))

RECURSIVE GO1_union_all(_, _, _, _)
GO1_union_all(s, endpoints, bh, i) ==
    IF i > Len(endpoints) THEN s
    ELSE GO1_union_all(GO1_union_db2(s, endpoints[i], bh), endpoints, bh, i + 1)

RECURSIVE GO1_mark_bridges(_, _, _, _, _)
GO1_mark_bridges(s, tmp, v, w, i) ==
    IF i > Len(tmp) THEN s
    ELSE GO1_mark_bridges(
             [s EXCEPT !.bridgeH_src = Put(@, tmp[i], v),
                       !.bridgeH_tgt = Put(@, tmp[i], w),
                       !.dirH = Put(@, tmp[i], -1)],
             tmp, v, w, i + 1)

\* frames for tmp[size-1] .. tmp[0], pushed in that order
RECURSIVE GO1_push_frames(_, _, _)
GO1_push_frames(stk, tmp, i) ==
    IF i < 1 THEN stk
    ELSE GO1_push_frames(Append(stk, GO1_Frame(tmp[i])), tmp, i - 1)

RECURSIVE GO1_dfs(_, _, _)

\* GO1_dfs_s3_bw: the rest of the block once s6 is known
GO1_dfs_s3_bw_s6(g, v, w, stk1, bw, s6) ==
    LET s7 == GO1_mark_bridges(s6, bw.tmp, v, w, 1)
    IN IF bw.s.hung THEN bw.s
       ELSE GO1_dfs(g, s7,
                GO1_push_frames(stk1, bw.tmp,
                                Len(bw.tmp)))

\* GO1_dfs_s3: the rest of the block once bw is known
GO1_dfs_s3_bw(g, v, w, stk1, bh, bw) ==
    GO1_dfs_s3_bw_s6(g, v, w, stk1, bw,
        GO1_make_rep_db2(
            GO1_union_all(bw.s, bw.endpoints,
                          bh, 1), bh))

\* GO1_dfs: the rest of the block once s3 is known
GO1_dfs_s3(g, vh, v, w, stk1, s3) ==
    LET uh == s3.r
    IN IF At(s3.mateH, vh) = uh \/ At(s3.labelH, uh) = ODD
       THEN GO1_dfs(g, s3, stk1)
       ELSE IF At(s3.labelH, uh) = UNLABELED
       THEN LET muh == At(s3.mateH, uh)
                s4 == [s3 EXCEPT !.labelH = Put(@, uh, ODD),
                                 !.parentH_src = Put(@, uh, w),
                                 !.parentH_tgt = Put(@, uh, v)]
            IN IF muh = NIL THEN [s4 EXCEPT !.free_node = uh]
               ELSE GO1_dfs(g,
                        [s4 EXCEPT !.labelH = Put(@, muh, EVEN),
                                   !.even_timeH = Put(@, muh, s4.tH),
                                   !.tH = @ + 1],
                        Append(stk1, GO1_Frame(muh)))
       ELSE IF At(s3.labelH, uh) = EVEN
       THEN LET s4 == GO1_find_db2(s3, vh)
                s5 == GO1_find_db2(s4, uh)
                bh == s4.r
                zh == s5.r
            IN IF At(s5.even_timeH, bh) < At(s5.even_timeH, zh)
               THEN GO1_dfs_s3_bw(g, v, w, stk1, bh,
                        GO1_blossom_walk(s5, zh, bh, <<>>, <<>>))
               ELSE GO1_dfs(g, s5, stk1)
       ELSE GO1_dfs(g, s3, stk1)

\* find_apHG from the frame stack stk, one adjacency entry per step; the
\* return value is left in field free_node
GO1_dfs(g, s, stk) ==
    IF s.hung THEN s
    ELSE IF s.fuel = 0 THEN [s EXCEPT !.hung = TRUE]
    ELSE IF stk = <<>> THEN [s EXCEPT !.free_node = NIL]
    ELSE
    LET top == Len(stk)
        f == stk[top]
        vh == f.vh
        ci == At(s.contracted_into, vh)
        t == [s EXCEPT !.fuel = @ - 1]
    IN IF f.ci_idx >= Len(ci) THEN GO1_dfs(g, t, SubSeq(stk, 1, top - 1))
       ELSE
       LET v == ci[f.ci_idx + 1]
       IN IF f.adj_idx >= Len(g[v])
          THEN GO1_dfs(g, t, [stk EXCEPT ![top] =
                   [f EXCEPT !.v = v, !.ci_idx = @ + 1, !.adj_idx = 0]])
          ELSE
          LET w == g[v][f.adj_idx + 1]
              stk1 == [stk EXCEPT ![top] = [f EXCEPT !.v = v, !.adj_idx = @ + 1]]
          IN IF ~At(t.in_tree, w) \/ At(t.mate, v) = w THEN GO1_dfs(g, t, stk1)
             ELSE
             LET s1 == GO1_find_dbase(t, w)
                 s2 == GO1_find_dbase(s1, v)
             IN IF s1.r = s2.r THEN GO1_dfs(g, s2, stk1)
                ELSE
                GO1_dfs_s3(g, vh, v, w, stk1, GO1_find_db2(s2, At(s2.rep, w)))

GO1_find_apHG(g, s, root_vh) == GO1_dfs(g, s, <<GO1_Frame(root_vh)>>)

GO1_HFrame(vh, uh) ==
    [vh |-> vh, uh |-> uh, phase |-> 0, bs |-> 0, bt |-> 0,
     side_a |-> 0, side_b |-> 0]

\* trace_H_path: the edges are appended to field edges_out
RECURSIVE GO1_trace_H_loop(_, _)
GO1_trace_H_loop(s, stk) ==
    IF s.hung THEN s
    ELSE IF s.fuel = 0 THEN [s EXCEPT !.hung = TRUE]
    ELSE IF stk = <<>> THEN s
    ELSE
    LET top == Len(stk)
        f == stk[top]
        t == [s EXCEPT !.fuel = @ - 1]
    IN IF f.vh = f.uh THEN GO1_trace_H_loop(t, SubSeq(stk, 1, top - 1))
       ELSE IF At(t.labelH, f.vh) = EVEN
       THEN LET mvh == At(t.mateH, f.vh)
                ps == At(t.parentH_src, mvh)
                pt == At(t.parentH_tgt, mvh)
            IN GO1_trace_H_loop(
                   [t EXCEPT !.edges_out = Append(@, <<ps, pt>>)],
                   [stk EXCEPT ![top].vh = GO1_other_end(t, ps, pt, mvh)])
       ELSE IF f.phase = 0
       THEN LET bs == At(t.bridgeH_src, f.vh)
                bt == At(t.bridgeH_tgt, f.vh)
                fwd == At(t.dirH, f.vh) = 1
                side_a == IF fwd THEN At(t.rep, bs) ELSE At(t.rep, bt)
                side_b == IF fwd THEN At(t.rep, bt) ELSE At(t.rep, bs)
                mt == IF At(t.mateH, f.vh) # NIL
                      THEN At(t.rep, At(t.mateH, f.vh)) ELSE f.vh
            IN GO1_trace_H_loop(t,
                   Append([stk EXCEPT ![top] =
                               [f EXCEPT !.bs = bs, !.bt = bt, !.side_a = side_a,
                                         !.side_b = side_b, !.phase = 1]],
                          GO1_HFrame(side_a, mt)))
       ELSE IF f.phase = 1
       THEN GO1_trace_H_loop(
                [t EXCEPT !.edges_out = Append(@, <<f.bs, f.bt>>)],
                Append([stk EXCEPT ![top].phase = 2], GO1_HFrame(f.side_b, f.uh)))
       ELSE GO1_trace_H_loop(t, SubSeq(stk, 1, top - 1))

GO1_trace_H_path(s, vh, uh) == GO1_trace_H_loop(s, <<GO1_HFrame(vh, uh)>>)

GO1_GFrame(v, u) == [v |-> v, u |-> u, phase |-> 0, sb |-> 0, tb |-> 0]

\* find_path_in_G: the pairs are appended to field pairs
RECURSIVE GO1_path_G_loop(_, _)
GO1_path_G_loop(s, stk) ==
    IF s.hung THEN s
    ELSE IF s.fuel = 0 THEN [s EXCEPT !.hung = TRUE]
    ELSE IF stk = <<>> THEN s
    ELSE
    LET top == Len(stk)
        f == stk[top]
        t == [s EXCEPT !.fuel = @ - 1]
    IN IF f.v = f.u THEN GO1_path_G_loop(t, SubSeq(stk, 1, top - 1))
       ELSE IF f.phase = 0
       THEN IF At(t.label, f.v) = EVEN
            THEN LET mv == At(t.mate, f.v)
                     pmv == At(t.parent, mv)
                 IN GO1_path_G_loop([t EXCEPT !.pairs = Append(@, <<mv, pmv>>)],
                                    [stk EXCEPT ![top].v = pmv])
            ELSE LET sb == At(t.source_bridge, f.v)
                     tb == At(t.target_bridge, f.v)
                 IN GO1_path_G_loop(t,
                        Append([stk EXCEPT ![top] =
                                    [f EXCEPT !.sb = sb, !.tb = tb, !.phase = 1]],
                               GO1_GFrame(sb, At(t.mate, f.v))))
       ELSE IF f.phase = 1
       THEN GO1_path_G_loop([t EXCEPT !.pairs = Append(@, <<f.sb, f.tb>>)],
                Append([stk EXCEPT ![top].phase = 2], GO1_GFrame(f.tb, f.u)))
       ELSE GO1_path_G_loop(t, SubSeq(stk, 1, top - 1))

GO1_find_path_in_G(s, v, u) == GO1_path_G_loop(s, <<GO1_GFrame(v, u)>>)

RECURSIVE GO1_unfold(_, _, _)

\* GO1_unfold: the rest of the block once s2 is known
GO1_unfold_s2(h_edges, i, s2) ==
    GO1_unfold(s2, h_edges, i + 1)

GO1_unfold(s, h_edges, i) ==
    IF s.hung \/ i > Len(h_edges) THEN s
    ELSE LET u == h_edges[i][1]
             v == h_edges[i][2]
             s1 == GO1_find_path_in_G([s EXCEPT !.pairs = Append(@, <<u, v>>)],
                                      u, At(s.rep, u))
         IN GO1_unfold_s2(h_edges, i,
                IF s1.hung THEN s1 ELSE GO1_find_path_in_G(s1, v, At(s1.rep, v)))

\* faulty variant: only mate[a] = b is written for a pair (a, b)
RECURSIVE GO1_set_mates_oneway(_, _, _)
GO1_set_mates_oneway(mate, pairs, i) ==
    IF i > Len(pairs) THEN mate
    ELSE GO1_set_mates_oneway(Put(mate, pairs[i][1], pairs[i][2]),
                              pairs, i + 1)

RECURSIVE GO1_set_mates(_, _, _)
GO1_set_mates(mate, pairs, i) ==
    IF i > Len(pairs) THEN mate
    ELSE GO1_set_mates(Put(Put(mate, pairs[i][1], pairs[i][2]),
                           pairs[i][2], pairs[i][1]),
                       pairs, i + 1)

\* GO1_augmentG: the rest of the block once s1 is known
GO1_augmentG_s1(s1) ==
    IF s1.hung THEN s1
    ELSE [s1 EXCEPT !.mate = GO1_set_mates(@, s1.pairs, 1), !.pairs = <<>>]

GO1_augmentG(s, h_edges) ==
    GO1_augmentG_s1(GO1_unfold([s EXCEPT !.pairs = <<>>], h_edges, 1))

\* first loop of phase_2
RECURSIVE GO1_init_H(_, _)
GO1_init_H(s, i) ==
    IF i > Len(s.tree_nodes) THEN s
    ELSE LET v == s.tree_nodes[i]
             s1 == GO1_find_dbase(s, v)
         IN GO1_init_H(
                [s1 EXCEPT !.rep = Put(@, v, s1.r),
                           !.labelH = Put(@, v, UNLABELED),
                           !.parentH_src = Put(@, v, NIL),
                           !.parentH_tgt = Put(@, v, NIL),
                           !.bridgeH_src = Put(@, v, NIL),
                           !.bridgeH_tgt = Put(@, v, NIL),
                           !.dirH = Put(@, v, 0),
                           !.even_timeH = Put(@, v, 0),
                           !.dbase2_par = Put(@, v, v)],
                i + 1)

RECURSIVE GO1_search_H(_, _, _)

\* GO1_search_H: the rest of the block once s1 is known
GO1_search_H_s1(g, i, vh, s1) ==
    IF s1.hung THEN s1
    ELSE IF s1.free_node # NIL
    THEN LET ps == At(s1.parentH_src, s1.free_node)
             pt == At(s1.parentH_tgt, s1.free_node)
             s2 == GO1_trace_H_path(
                       [s1 EXCEPT !.edges_out = <<<<ps, pt>>>>],
                       GO1_other_end(s1, ps, pt, s1.free_node), vh)
         IN GO1_search_H(g,
                [s2 EXCEPT !.all_paths = Append(@, s2.edges_out),
                           !.edges_out = <<>>],
                i + 1)
    ELSE GO1_search_H(g, s1, i + 1)

\* second loop of phase_2: one DFS per free H-node, paths kept in all_paths
GO1_search_H(g, s, i) ==
    IF s.hung \/ i > Len(s.tree_nodes) THEN s
    ELSE LET vh == s.tree_nodes[i]
         IN IF vh # At(s.rep, vh) THEN GO1_search_H(g, s, i + 1)
            ELSE IF At(s.labelH, vh) # UNLABELED \/ At(s.mateH, vh) # NIL
            THEN GO1_search_H(g, s, i + 1)
            ELSE
            GO1_search_H_s1(g, i, vh,
                GO1_find_apHG(g,
                    [s EXCEPT !.labelH = Put(@, vh, EVEN),
                              !.even_timeH = Put(@, vh, s.tH),
                              !.tH = @ + 1], vh))

RECURSIVE GO1_augment_all(_, _)
GO1_augment_all(s, i) ==
    IF s.hung \/ i > Len(s.all_paths) THEN s
    ELSE GO1_augment_all(GO1_augmentG(s, s.all_paths[i]), i + 1)

\* clean-up loop of phase_2
RECURSIVE GO1_clean_up(_, _)
GO1_clean_up(s, i) ==
    IF i > Len(s.tree_nodes) THEN s
    ELSE LET v == s.tree_nodes[i]
             s1 == GO1_find_dbase(s, v)
         IN GO1_clean_up(
                [s1 EXCEPT !.contracted_into = Put(Put(@, s1.r, <<>>), v, <<>>),
                           !.mateH = Put(@, v, NIL)],
                i + 1)

\* GO1_phase_2_s1: the rest of the block once s2 is known
GO1_phase_2_s1_s2(s2) ==
    IF s2.hung THEN s2
    ELSE [GO1_clean_up(s2, 1) EXCEPT !.all_paths = <<>>]

\* GO1_phase_2: the rest of the block once s1 is known
GO1_phase_2_s1(s1) ==
    GO1_phase_2_s1_s2(GO1_augment_all(s1, 1))

GO1_phase_2(g, m) ==
    LET s0 == [GO1_init_H([m EXCEPT !.fuel = MaxSteps], 1)
                  EXCEPT !.tH = 0, !.all_paths = <<>>]
    IN GO1_phase_2_s1(GO1_search_H(g, s0, 1))

\* members after the constructor (resize(n) vectors hold zeros)
GO1_new(k) ==
    [mate |-> Fill(k, NIL), label |-> Fill(k, UNLABELED),
     parent |-> Fill(k, NIL), source_bridge |-> Fill(k, NIL),
     target_bridge |-> Fill(k, NIL), base_par |-> Fill(k, 0),
     dbase_par |-> Fill(k, 0), level_queue |-> Fill(k + 2, <<>>),
     lca_tag1 |-> Fill(k, 0), lca_tag2 |-> Fill(k, 0), lca_epoch |-> 0,
     in_tree |-> Fill(k, FALSE), tree_nodes |-> <<>>, Delta |-> 0,
     rep |-> Fill(k, 0), mateH |-> Fill(k, NIL), labelH |-> Fill(k, UNLABELED),
     parentH_src |-> Fill(k, NIL), parentH_tgt |-> Fill(k, NIL),
     bridgeH_src |-> Fill(k, NIL), bridgeH_tgt |-> Fill(k, NIL),
     dirH |-> Fill(k, 0), even_timeH |-> Fill(k, 0), tH |-> 0,
     dbase2_par |-> Fill(k, 0), contracted_into |-> Fill(k, <<>>),
     dunions |-> <<>>, found_sap |-> FALSE, free_node |-> NIL,
     edges_out |-> <<>>, pairs |-> <<>>, all_paths |-> <<>>,
     r |-> 0, lca |-> NIL, hx |-> 0, hy |-> 0, hung |-> FALSE, fuel |-> 0]

\* locals of the calls are cleared when a phase returns
GO1_locals_cleared(s) ==
    [s EXCEPT !.dunions = <<>>, !.free_node = NIL, !.r = 0, !.lca = NIL,
              !.hx = 0, !.hy = 0, !.fuel = 0]

\* the greedy pass at the head of maximum_matching
GO1_greedy(k, g, m) ==
    [m EXCEPT !.mate = FromMate(k, greedy_init(k, g, ToMate(k, @)))]

\* GO1_stage: the rest of the block once s1 is known
GO1_stage_s1(g, s1) ==
    IF s1.hung \/ ~s1.found_sap THEN GO1_locals_cleared(s1)
    ELSE GO1_locals_cleared(GO1_phase_2(g, s1))

\* one pass of while (phase_1()) phase_2()
GO1_stage(g, m) ==
    GO1_stage_s1(g, GO1_phase_1(g, m))

RECURSIVE GO1_loop(_, _, _)

\* GO1_loop: the rest of the block once m1 is known
GO1_loop_m1(g, bound, m1) ==
    IF m1.hung \/ ~m1.found_sap THEN m1 ELSE GO1_loop(g, m1, bound - 1)

GO1_loop(g, m, bound) ==
    IF bound = 0 THEN [m EXCEPT !.hung = TRUE]
    ELSE GO1_loop_m1(g, bound, GO1_stage(g, m))

GO1_collect(k, m) == SortedPairs(MatchedPairs(k, ToMate(k, m.mate)))

(***************************************************************************)
(* gabow_optimized.cpp (the second Gabow variant, prefix GO2).  Its        *)
(* constructor sorts the adjacency lists without removing duplicates; so   *)
(* does the constructor of micali_vazirani.cpp.                            *)
(***************************************************************************)
RECURSIVE InsertSorted(_, _)
InsertSorted(x, q) ==
    IF q = <<>> THEN <<x>>
    ELSE IF x <= Head(q) THEN <<x>> \o q
    ELSE <<Head(q)>> \o InsertSorted(x, Tail(q))

RECURSIVE SortInts(_)
SortInts(q) == IF q = <<>> THEN <<>> ELSE InsertSorted(Head(q), SortInts(Tail(q)))

\* graph[v] as the push_back calls of the constructor loop leave it
RECURSIVE GO2_pushed(_, _, _, _)
GO2_pushed(k, el, v, i) ==
    IF i > Len(el) THEN <<>>
    ELSE LET a == el[i][1]
             b == el[i][2]
             ok == a < k /\ b < k /\ a # b
         IN (IF ok /\ a = v THEN <<b>> ELSE IF ok /\ b = v THEN <<a>> ELSE <<>>)
            \o GO2_pushed(k, el, v, i + 1)

GO2_BuildGraph(k, el) == [v \in Verts(k) |-> SortInts(GO2_pushed(k, el, v, 1))]

\* recursive find with full path compression; d bounds the recursion depth,
\* r = NIL reports a cycle in base (unbounded recursion)
RECURSIVE GO2_find(_, _, _)
GO2_find(base, v, d) ==
    IF At(base, v) = v THEN [base |-> base, r |-> v]
    ELSE IF d = 0 THEN [base |-> base, r |-> NIL]
    ELSE LET f == GO2_find(base, At(base, v), d - 1)
         IN IF f.r = NIL THEN f
            ELSE [base |-> Put(f.base, v, f.r), r |-> f.r]

GO2_find_base(s, v) ==
    LET f == GO2_find(s.base, v, Len(s.base))
    IN IF f.r = NIL THEN [s EXCEPT !.hung = TRUE]
       ELSE [s EXCEPT !.base = f.base, !.r = f.r]

\* first loop of find_lca: marks the bases from x up to the root
RECURSIVE GO2_lca_mark(_, _, _)
GO2_lca_mark(s, x, marked) ==
    IF s.hung THEN [s |-> s, marked |-> marked]
    ELSE IF s.fuel = 0 THEN [s |-> [s EXCEPT !.hung = TRUE], marked |-> marked]
    ELSE IF x = NIL THEN [s |-> s, marked |-> marked]
    ELSE LET m1 == marked \cup {x}
         IN IF At(s.mate, x) = NIL \/ At(s.parent, At(s.mate, x)) = NIL
            THEN [s |-> s, marked |-> m1]
            ELSE LET s1 == GO2_find_base([s EXCEPT !.fuel = @ - 1],
                                         At(s.parent, At(s.mate, x)))
                 IN GO2_lca_mark(s1, s1.r, m1)

\* second loop of find_lca; the result is left in field lca
RECURSIVE GO2_lca_search(_, _, _)
GO2_lca_search(s, y, marked) ==
    IF s.hung THEN s
    ELSE IF s.fuel = 0 THEN [s EXCEPT !.hung = TRUE]
    ELSE IF y = NIL THEN [s EXCEPT !.lca = NIL]
    ELSE IF y \in marked THEN [s EXCEPT !.lca = y]
    ELSE IF At(s.mate, y) = NIL \/ At(s.parent, At(s.mate, y)) = NIL
    THEN [s EXCEPT !.lca = NIL]
    ELSE LET s1 == GO2_find_base([s EXCEPT !.fuel = @ - 1],
                                 At(s.parent, At(s.mate, y)))
         IN GO2_lca_search(s1, s1.r, marked)

\* GO2_find_lca: the rest of the block once a is known
GO2_find_lca_a(v, s1, a) ==
    LET s2 == GO2_find_base(a.s, v)
    IN IF s1.hung THEN s1
       ELSE IF a.s.hung THEN a.s
       ELSE IF s2.hung THEN s2
       ELSE GO2_lca_search(s2, s2.r, a.marked)

GO2_find_lca(s, u, v) ==
    LET s1 == GO2_find_base(s, u)
    IN GO2_find_lca_a(v, s1, GO2_lca_mark(s1, s1.r, {}))

RECURSIVE GO2_shrink_walk(_, _, _, _, _)
GO2_shrink_walk(s, lca, x, y, v) ==
    IF s.hung THEN s
    ELSE IF s.fuel = 0 THEN [s EXCEPT !.hung = TRUE]
    ELSE IF v = lca THEN s
    ELSE LET s1 == [s EXCEPT !.base = Put(@, v, lca), !.fuel = @ - 1]
             mate_v == At(s1.mate, v)
         IN IF mate_v = NIL THEN s1
            ELSE LET s2 == [s1 EXCEPT !.base = Put(@, mate_v, lca),
                                      !.source_bridge = Put(@, mate_v, x),
                                      !.target_bridge = Put(@, mate_v, y)]
                 IN IF At(s2.parent, mate_v) = NIL THEN s2
                    ELSE LET s3 == GO2_find_base(s2, At(s2.parent, mate_v))
                         IN GO2_shrink_walk(s3, lca, x, y, s3.r)

GO2_shrink_path(s, lca, x, y) ==
    LET s1 == GO2_find_base(s, x) IN GO2_shrink_walk(s1, lca, x, y, s1.r)

GO2_scan_edge(s, u, v) ==
    IF s.Delta < Len(s.edge_queue)
    THEN [s EXCEPT !.edge_queue = Put(@, s.Delta, Append(At(@, s.Delta), <<u, v>>))]
    ELSE s

RECURSIVE GO2_scan_all(_, _, _, _)
GO2_scan_all(g, s, z, i) ==
    IF i > Len(g[z]) THEN s
    ELSE GO2_scan_all(g, GO2_scan_edge(s, z, g[z][i]), z, i + 1)

RECURSIVE GO2_scan_free(_, _, _)
GO2_scan_free(g, s, v) ==
    IF v >= Len(s.mate) THEN s
    ELSE IF At(s.mate, v) = NIL
    THEN GO2_scan_free(g, GO2_scan_all(g, s, v, 1), v + 1)
    ELSE GO2_scan_free(g, s, v + 1)

RECURSIVE GO2_drain(_, _)

\* GO2_drain_sw: the rest of the block once s3 is known
GO2_drain_sw_s3(g, x, y, s3) ==
    IF s3.hung THEN s3
    ELSE IF s3.lca # NIL
    THEN GO2_drain(g,
             GO2_shrink_path(GO2_shrink_path(s3, s3.lca, x, y),
                             s3.lca, y, x))
    ELSE [s3 EXCEPT !.found = TRUE]

\* GO2_drain: the rest of the block once sw is known
GO2_drain_sw(g, e, s1, s2, sw) ==
    LET x == IF sw THEN e[2] ELSE e[1]
        y == IF sw THEN e[1] ELSE e[2]
        base_x == IF sw THEN s2.r ELSE s1.r
        base_y == IF sw THEN s1.r ELSE s2.r
    IN IF s1.hung THEN s1
       ELSE IF s2.hung THEN s2
       ELSE IF base_x = base_y \/ At(s2.label, base_x) # EVEN
               \/ y = At(s2.mate, x) \/ At(s2.label, base_y) = ODD
       THEN GO2_drain(g, s2)
       ELSE IF At(s2.label, base_y) = UNLABELED
       THEN LET z == At(s2.mate, y)
            IN IF z # NIL
               THEN GO2_drain(g,
                        GO2_scan_all(g,
                            [s2 EXCEPT !.label = Put(Put(@, y, ODD), z, EVEN),
                                       !.parent = Put(Put(@, y, x), z, y)],
                            z, 1))
               ELSE GO2_drain(g, s2)
       ELSE IF At(s2.label, base_y) = EVEN
       THEN GO2_drain_sw_s3(g, x, y, GO2_find_lca(s2, x, y))
       ELSE GO2_drain(g, s2)

\* while (!edge_queue[Delta].empty()): break leaves found = TRUE
GO2_drain(g, s) ==
    IF s.hung THEN s
    ELSE IF s.fuel = 0 THEN [s EXCEPT !.hung = TRUE]
    ELSE IF At(s.edge_queue, s.Delta) = <<>> THEN s
    ELSE
    LET q == At(s.edge_queue, s.Delta)
        e == q[Len(q)]
        t == [s EXCEPT !.edge_queue = Put(@, s.Delta, SubSeq(q, 1, Len(q) - 1)),
                       !.fuel = @ - 1]
        s1 == GO2_find_base(t, e[1])
        s2 == GO2_find_base(s1, e[2])
    IN GO2_drain_sw(g, e, s1, s2, At(s2.label, s1.r) # EVEN)

RECURSIVE GO2_delta_loop(_, _)

\* GO2_delta_loop: the rest of the block once s1 is known
GO2_delta_loop_s1(g, s1) ==
    IF s1.hung \/ s1.found THEN s1
    ELSE GO2_delta_loop(g, [s1 EXCEPT !.Delta = @ + 1])

GO2_delta_loop(g, s) ==
    IF s.hung THEN s
    ELSE IF ~(s.Delta <= Len(s.mate) /\ ~s.found) THEN s
    ELSE GO2_delta_loop_s1(g, GO2_drain(g, s))

RECURSIVE GO2_root_labels(_, _)
GO2_root_labels(mate, i) ==
    IF i > Len(mate) THEN <<>>
    ELSE <<IF mate[i] = NIL THEN EVEN ELSE UNLABELED>>
         \o GO2_root_labels(mate, i + 1)

GO2_phase_1(g, m) ==
    LET k == Len(m.mate)
        s0 == [m EXCEPT !.Delta = 0, !.found = FALSE,
                        !.edge_queue = Fill(Len(@), <<>>),
                        !.base = Iota(k),
                        !.label = GO2_root_labels(m.mate, 1),
                        !.parent = Fill(k, NIL),
                        !.source_bridge = Fill(k, NIL),
                        !.target_bridge = Fill(k, NIL),
                        !.fuel = MaxSteps]
    IN GO2_delta_loop(g, GO2_scan_free(g, s0, 0))

RECURSIVE GO2_bfs_edges(_, _, _, _, _)

\* GO2_bfs_edges: the rest of the block once s3 is known
GO2_bfs_edges_s3(g, start, u, i, v, s3) ==
    LET mate_v == At(s3.mate, v)
    IN IF mate_v = NIL THEN GO2_bfs_edges(g, s3, start, u, i + 1)
       ELSE LET s4 == GO2_find_base(s3, mate_v)
            IN IF s4.hung THEN s4
               ELSE IF s4.r \notin s4.visited
               THEN LET s5 == GO2_find_base(
                                  [s4 EXCEPT !.pred = Put(@, mate_v, v)],
                                  mate_v)
                    IN GO2_bfs_edges(g,
                           [s5 EXCEPT !.visited = @ \cup {s5.r},
                                      !.q = Append(@, mate_v)],
                           start, u, i + 1)
               ELSE GO2_bfs_edges(g, s4, start, u, i + 1)

\* for (int v : graph[u]) of the BFS of phase_2
GO2_bfs_edges(g, s, start, u, i) ==
    IF s.hung THEN s
    ELSE IF i > Len(g[u]) THEN s
    ELSE
    LET v == g[u][i]
        s1 == GO2_find_base(s, u)
        s2 == GO2_find_base(s1, v)
        base_v == s2.r
    IN IF s1.hung THEN s1
       ELSE IF s2.hung THEN s2
       ELSE IF s1.r = base_v \/ base_v \in s2.visited
       THEN GO2_bfs_edges(g, s2, start, u, i + 1)
       ELSE IF At(s2.mate, v) = NIL /\ v # start
       THEN [s2 EXCEPT !.pred = Put(@, v, u), !.endpoint = v]
       ELSE IF At(s2.label, base_v) # ODD
       THEN GO2_bfs_edges_s3(g, start, u, i, v,
                [s2 EXCEPT !.pred = Put(@, v, u),
                           !.visited = @ \cup {base_v}])
       ELSE GO2_bfs_edges(g, s2, start, u, i + 1)

\* while (!q.empty() && endpoint == NIL)
RECURSIVE GO2_bfs(_, _, _)
GO2_bfs(g, s, start) ==
    IF s.hung THEN s
    ELSE IF s.fuel = 0 THEN [s EXCEPT !.hung = TRUE]
    ELSE IF s.q = <<>> \/ s.endpoint # NIL THEN s
    ELSE GO2_bfs(g,
             GO2_bfs_edges(g, [s EXCEPT !.q = Tail(@), !.fuel = @ - 1],
                           start, Head(s.q), 1),
             start)

\* while (curr != NIL) path.push_back(curr), then reversed
RECURSIVE GO2_path_to(_, _, _)
GO2_path_to(pred, curr, d) ==
    IF curr = NIL THEN <<>>
    ELSE IF d = 0 THEN <<NIL>>
    ELSE Append(GO2_path_to(pred, At(pred, curr), d - 1), curr)

\* faulty variant: only mate[u] of the first pair is written
GO2_flip_oneway(mate, path, i) ==
    IF Len(path) < 2 THEN mate ELSE Put(mate, path[1], path[2])

RECURSIVE GO2_flip(_, _, _)
GO2_flip(mate, path, i) ==
    IF i + 1 >= Len(path) THEN mate
    ELSE GO2_flip(Put(Put(mate, path[i + 1], path[i + 2]),
                      path[i + 2], path[i + 1]),
                  path, i + 2)

\* GO2_search_from: the rest of the block once s2 is known
GO2_search_from_s2(s1, s2) ==
    LET path == GO2_path_to(s2.pred, s2.endpoint, Len(s2.mate) + 1)
    IN IF s1.hung THEN s1
       ELSE IF s2.hung \/ s2.endpoint = NIL THEN s2
       ELSE IF Head(path) = NIL THEN [s2 EXCEPT !.hung = TRUE]
       ELSE [s2 EXCEPT !.mate = GO2_flip(@, path, 0)]

\* the body of for (start ...) once the guards have passed
GO2_search_from(g, s, start) ==
    LET s1 == GO2_find_base([s EXCEPT !.q = <<start>>,
                                      !.pred = Fill(Len(s.mate), NIL),
                                      !.endpoint = NIL], start)
    IN GO2_search_from_s2(s1,
           GO2_bfs(g, [s1 EXCEPT !.visited = {s1.r}], start))

RECURSIVE GO2_phase_2_from(_, _, _)
GO2_phase_2_from(g, s, start) ==
    IF s.hung \/ start >= Len(s.mate) THEN s
    ELSE IF At(s.mate, start) # NIL \/ At(s.label, start) # EVEN
    THEN GO2_phase_2_from(g, s, start + 1)
    ELSE GO2_phase_2_from(g, GO2_search_from(g, s, start), start + 1)

GO2_locals_cleared(s) ==
    [s EXCEPT !.q = <<>>, !.pred = <<>>, !.visited = {}, !.endpoint = NIL,
              !.r = 0, !.lca = NIL, !.fuel = 0]

GO2_phase_2(g, m) == GO2_phase_2_from(g, [m EXCEPT !.fuel = MaxSteps], 0)

\* members after the constructor (base.resize(n) holds zeros)
GO2_new(k) ==
    [mate |-> Fill(k, NIL), label |-> Fill(k, UNLABELED), base |-> Fill(k, 0),
     parent |-> Fill(k, NIL), source_bridge |-> Fill(k, NIL),
     target_bridge |-> Fill(k, NIL), edge_queue |-> Fill(k + 1, <<>>),
     Delta |-> 0, found |-> FALSE, q |-> <<>>, pred |-> <<>>, visited |-> {},
     endpoint |-> NIL, r |-> 0, lca |-> NIL,
     hung |-> FALSE, fuel |-> 0]

\* GO2_stage: the rest of the block once s1 is known
GO2_stage_s1(g, s1) ==
    IF s1.hung \/ ~s1.found THEN GO2_locals_cleared(s1)
    ELSE GO2_locals_cleared(GO2_phase_2(g, s1))

\* one pass of while (phase_1()) phase_2(); found is phase_1's return value
GO2_stage(g, m) ==
    GO2_stage_s1(g, GO2_phase_1(g, m))

RECURSIVE GO2_loop(_, _, _)

\* GO2_loop: the rest of the block once m1 is known
GO2_loop_m1(g, m, bound, m1) ==
    IF m1.hung \/ ~m1.found THEN m1
    ELSE IF m1.mate = m.mate THEN [m1 EXCEPT !.hung = TRUE]
    ELSE GO2_loop(g, m1, bound - 1)

\* the loop cannot leave a state it has entered twice: a pass that leaves
\* mate unchanged is repeated forever
GO2_loop(g, m, bound) ==
    IF bound = 0 THEN [m EXCEPT !.hung = TRUE]
    ELSE GO2_loop_m1(g, m, bound, GO2_stage(g, m))

\* the result loop of maximum_matching: (min, max) of u and mate[u] for every
\* u not yet seen, then sorted
RECURSIVE GO2_result(_, _, _)
GO2_result(mate, u, seen) ==
    IF u >= Len(mate) THEN <<>>
    ELSE IF At(mate, u) # NIL /\ u \notin seen
    THEN LET v == At(mate, u)
         IN <<<<IF u < v THEN u ELSE v, IF u > v THEN u ELSE v>>>>
            \o GO2_result(mate, u + 1, seen \cup {u, v})
    ELSE GO2_result(mate, u + 1, seen)

RECURSIVE InsertPair(_, _)
InsertPair(x, q) ==
    IF q = <<>> THEN <<x>>
    ELSE IF x = Head(q) \/ PairLess(x, Head(q)) THEN <<x>> \o q
    ELSE <<Head(q)>> \o InsertPair(x, Tail(q))

RECURSIVE SortPairSeq(_)
SortPairSeq(q) ==
    IF q = <<>> THEN <<>> ELSE InsertPair(Head(q), SortPairSeq(Tail(q)))

GO2_collect(m) == SortPairSeq(GO2_result(m.mate, 0, {}))

(***************************************************************************)
(* micali_vazirani.cpp (hybrid): level building as in MV, path search by   *)
(* plain BFS from each free vertex.                                        *)
(***************************************************************************)
UNSET == 2147483647

MVH_Node ==
    [preds |-> <<>>, hanging_bridges |-> <<>>, match |-> NIL,
     min_level |-> UNSET, even_level |-> UNSET, odd_level |-> UNSET]

MVH_set_min_level(nd, level) ==
    IF level % 2 = 0 THEN [nd EXCEPT !.min_level = level, !.even_level = level]
    ELSE [nd EXCEPT !.min_level = level, !.odd_level = level]

MVH_node_reset(nd) == [MVH_Node EXCEPT !.match = nd.match]

\* find_base: recursive find with path compression (d bounds the depth)
MVH_find_base(s, v) ==
    LET f == GO2_find(s.base, v, Len(s.base))
    IN IF f.r = NIL THEN [s EXCEPT !.hung = TRUE]
       ELSE [s EXCEPT !.base = f.base, !.r = f.r]

MVH_add_to_level(s, level, node) ==
    LET lv == IF Len(s.levels) <= level THEN Resize(s.levels, level + 1, <<>>)
              ELSE s.levels
    IN [s EXCEPT !.levels = Put(lv, level, Append(At(lv, level), node))]

MVH_step_to(s, to, from, level0) ==
    LET level == level0 + 1
        tl == At(s.nodes, to).min_level
    IN IF tl >= level
       THEN LET s1 == IF tl # level
                      THEN LET a == MVH_add_to_level(s, level, to)
                           IN [a EXCEPT !.nodes[to + 1] =
                                            MVH_set_min_level(@, level)]
                      ELSE s
            IN [s1 EXCEPT !.nodes[to + 1].preds = Append(@, from)]
       ELSE s

RECURSIVE MVH_reset_nodes(_, _)
MVH_reset_nodes(s, i) ==
    IF i >= Len(s.nodes) THEN s
    ELSE MVH_reset_nodes(
             [s EXCEPT !.base = Put(@, i, i),
                       !.nodes = Put(@, i, MVH_node_reset(At(@, i)))],
             i + 1)

RECURSIVE MVH_seed_levels(_, _)
MVH_seed_levels(s, i) ==
    IF i >= Len(s.nodes) THEN s
    ELSE IF At(s.nodes, i).match = NIL
    THEN LET a == MVH_add_to_level(s, 0, i)
         IN MVH_seed_levels(
                [a EXCEPT !.nodes[i + 1] = MVH_set_min_level(@, 0)], i + 1)
    ELSE MVH_seed_levels(s, i + 1)

RECURSIVE MVH_even_edges(_, _, _, _, _)
MVH_even_edges(g, s, current, i, j) ==
    IF j > Len(g[current]) THEN s
    ELSE LET neighbor == g[current][j]
         IN IF neighbor # At(s.nodes, current).match
            THEN MVH_even_edges(g, MVH_step_to(s, neighbor, current, i),
                                current, i, j + 1)
            ELSE MVH_even_edges(g, s, current, i, j + 1)

\* for (int current : levels[i]); levels[i] does not grow while it is read
RECURSIVE MVH_level_loop(_, _, _, _)
MVH_level_loop(g, s, i, k) ==
    IF k >= Len(At(s.levels, i)) THEN s
    ELSE LET current == At(At(s.levels, i), k)
             m == At(s.nodes, current).match
         IN IF i % 2 = 0
            THEN MVH_level_loop(g, MVH_even_edges(g, s, current, i, 1), i, k + 1)
            ELSE IF m # NIL
            THEN MVH_level_loop(g, MVH_step_to(s, m, current, i), i, k + 1)
            ELSE MVH_level_loop(g, s, i, k + 1)

RECURSIVE MVH_build_levels(_, _, _)
MVH_build_levels(g, s, i) ==
    IF i >= Len(s.nodes) THEN s
    ELSE IF Len(s.levels) <= i \/ At(s.levels, i) = <<>>
    THEN MVH_build_levels(g, s, i + 1)
    ELSE MVH_build_levels(g, MVH_level_loop(g, s, i, 0), i + 1)

MVH_phase_1(g, m) ==
    MVH_build_levels(g,
        MVH_seed_levels(MVH_reset_nodes([m EXCEPT !.levels = <<>>], 0), 0), 0)

RECURSIVE MVH_bfs_edges(_, _, _, _, _)

\* MVH_bfs_edges: the rest of the block once s3 is known
MVH_bfs_edges_s3(g, start, u, i, v, s3) ==
    LET mate_v == At(s3.nodes, v).match
    IN IF mate_v = NIL THEN MVH_bfs_edges(g, s3, start, u, i + 1)
       ELSE LET s4 == MVH_find_base(s3, mate_v)
            IN IF s4.hung THEN s4
               ELSE IF s4.r \notin s4.visited
               THEN LET s5 == MVH_find_base(
                                  [s4 EXCEPT !.pred = Put(@, mate_v, v)],
                                  mate_v)
                    IN MVH_bfs_edges(g,
                           [s5 EXCEPT !.visited = @ \cup {s5.r},
                                      !.q = Append(@, mate_v)],
                           start, u, i + 1)
               ELSE MVH_bfs_edges(g, s4, start, u, i + 1)

\* for (int v : graph[u]) of the BFS of phase_2
MVH_bfs_edges(g, s, start, u, i) ==
    IF s.hung THEN s
    ELSE IF i > Len(g[u]) THEN s
    ELSE
    LET v == g[u][i]
        s1 == MVH_find_base(s, u)
        s2 == MVH_find_base(s1, v)
        base_v == s2.r
    IN IF s1.hung THEN s1
       ELSE IF s2.hung THEN s2
       ELSE IF s1.r = base_v \/ base_v \in s2.visited
       THEN MVH_bfs_edges(g, s2, start, u, i + 1)
       ELSE IF At(s2.nodes, v).match = NIL /\ v # start
       THEN [s2 EXCEPT !.pred = Put(@, v, u), !.endpoint = v]
       ELSE MVH_bfs_edges_s3(g, start, u, i, v,
                [s2 EXCEPT !.pred = Put(@, v, u),
                           !.visited = @ \cup {base_v}])

\* while (!q.empty() && endpoint == NIL)
RECURSIVE MVH_bfs(_, _, _)
MVH_bfs(g, s, start) ==
    IF s.hung THEN s
    ELSE IF s.fuel = 0 THEN [s EXCEPT !.hung = TRUE]
    ELSE IF s.q = <<>> \/ s.endpoint # NIL THEN s
    ELSE MVH_bfs(g,
             MVH_bfs_edges(g, [s EXCEPT !.q = Tail(@), !.fuel = @ - 1],
                           start, Head(s.q), 1),
             start)

RECURSIVE MVH_flip(_, _, _)
MVH_flip(nodes, path, i) ==
    IF i + 1 >= Len(path) THEN nodes
    ELSE LET u == path[i + 1]
             v == path[i + 2]
             a == [nodes EXCEPT ![u + 1].match = v]
         IN MVH_flip([a EXCEPT ![v + 1].match = u], path, i + 2)

\* MVH_search_from: the rest of the block once s2 is known
MVH_search_from_s2(s1, s2) ==
    LET path == GO2_path_to(s2.pred, s2.endpoint, Len(s2.nodes) + 1)
    IN IF s1.hung THEN s1
       ELSE IF s2.hung \/ s2.endpoint = NIL THEN s2
       ELSE IF Head(path) = NIL THEN [s2 EXCEPT !.hung = TRUE]
       ELSE [s2 EXCEPT !.nodes = MVH_flip(@, path, 0), !.matchnum = @ + 1,
                       !.found = TRUE]

\* the body of for (start ...) once the guards have passed
MVH_search_from(g, s, start) ==
    LET s1 == MVH_find_base([s EXCEPT !.q = <<start>>,
                                      !.pred = Fill(Len(s.nodes), NIL),
                                      !.endpoint = NIL], start)
    IN MVH_search_from_s2(s1,
           MVH_bfs(g, [s1 EXCEPT !.visited = {s1.r}], start))

RECURSIVE MVH_phase_2_from(_, _, _)
MVH_phase_2_from(g, s, start) ==
    IF s.hung \/ start >= Len(s.nodes) THEN s
    ELSE IF At(s.nodes, start).match # NIL \/ At(s.nodes, start).min_level # 0
    THEN MVH_phase_2_from(g, s, start + 1)
    ELSE MVH_phase_2_from(g, MVH_search_from(g, s, start), start + 1)

\* phase_2: the return value is left in field found
MVH_phase_2(g, m) ==
    MVH_phase_2_from(g, [m EXCEPT !.found = FALSE, !.fuel = MaxSteps], 0)

\* members after the constructor (base.resize(n) holds zeros)
MVH_new(k) ==
    [nodes |-> Fill(k, MVH_Node), base |-> Fill(k, 0), levels |-> <<>>,
     matchnum |-> 0, found |-> FALSE, q |-> <<>>, pred |-> <<>>,
     visited |-> {}, endpoint |-> NIL, r |-> 0, hung |-> FALSE, fuel |-> 0]

\* one pass of while (true) { phase_1(); if (!phase_2()) break; }
MVH_stage(g, m) ==
    [MVH_phase_2(g, MVH_phase_1(g, m))
        EXCEPT !.q = <<>>, !.pred = <<>>, !.visited = {}, !.endpoint = NIL,
               !.r = 0, !.fuel = 0]

RECURSIVE MVH_loop(_, _, _)

\* MVH_loop: the rest of the block once m1 is known
MVH_loop_m1(g, bound, m1) ==
    IF m1.hung \/ ~m1.found THEN m1 ELSE MVH_loop(g, m1, bound - 1)

MVH_loop(g, m, bound) ==
    IF bound = 0 THEN [m EXCEPT !.hung = TRUE]
    ELSE MVH_loop_m1(g, bound, MVH_stage(g, m))

\* the result loop of maximum_matching, then sorted
RECURSIVE MVH_result(_, _, _)
MVH_result(nodes, u, seen) ==
    IF u >= Len(nodes) THEN <<>>
    ELSE IF At(nodes, u).match # NIL /\ u \notin seen
    THEN LET v == At(nodes, u).match
         IN IF v >= 0 /\ v < Len(nodes)
            THEN <<<<IF u < v THEN u ELSE v, IF u > v THEN u ELSE v>>>>
                 \o MVH_result(nodes, u + 1, seen \cup {u, v})
            ELSE MVH_result(nodes, u + 1, seen)
    ELSE MVH_result(nodes, u + 1, seen)

MVH_collect(m) == SortPairSeq(MVH_result(m.nodes, 0, {}))

(***************************************************************************)
(* BLOSSOM-SIMPLE (edmonds_blossom_simple.cpp).  Vertices are the strings  *)
(* "V0", "V1", ...; vertex "Vi" is the integer i and the empty string is   *)
(* NIL, so that string order is integer order for one-digit indices.  The  *)
(* hash maps mate, parent and base are sequences over the keys "", "V0",   *)
(* ..., key x at position x + 2.  Only parent is ever searched with find,  *)
(* so only parent distinguishes a missing key (ABSENT) from a key mapped   *)
(* to the empty string; operator[] inserts a missing key with the empty    *)
(* string.  The member in_blossom is written and never read; it is left    *)
(* out.  The iteration order of the hash containers is not fixed by the    *)
(* language: the constructor picks one traversal order of the keys, field  *)
(* vertices, and every adjacency set is traversed in that order.           *)
(***************************************************************************)
ABSENT == -2

KAt(a, key) == a[key + 2]

KPut(a, key, x) == IF a[key + 2] = x THEN a ELSE [a EXCEPT ![key + 2] = x]

\* parent[key]: the value is then KAt(.parent, key)
BS_parent_at(s, key) ==
    IF KAt(s.parent, key) = ABSENT
    THEN [s EXCEPT !.parent = KPut(@, key, NIL)] ELSE s

RECURSIVE BS_is_outer_walk(_, _, _, _)
BS_is_outer_walk(s, current, distance, visited) ==
    LET s1 == BS_parent_at(s, current)
    IN IF current # KAt(s1.parent, current) /\ current \notin visited
       THEN BS_is_outer_walk(s1, KAt(s1.parent, current), distance + 1,
                             visited \cup {current})
       ELSE [s1 EXCEPT !.outer = (distance % 2 = 0)]

\* the return value is left in field outer
BS_is_outer(s, v) ==
    IF KAt(s.parent, v) = ABSENT THEN [s EXCEPT !.outer = FALSE]
    ELSE BS_is_outer_walk(s, v, 0, {})

RECURSIVE BS_mark_ancestors(_, _)
BS_mark_ancestors(s, current) ==
    IF s.hung THEN s
    ELSE IF s.fuel = 0 THEN [s EXCEPT !.hung = TRUE]
    ELSE IF KAt(s.parent, current) = ABSENT THEN s
    ELSE LET s1 == [s EXCEPT !.path_v = @ \cup {KAt(s.base, current)},
                            !.fuel = @ - 1]
         IN IF current = KAt(s.parent, current) THEN s1
            ELSE BS_mark_ancestors(s1, KAt(s.parent, current))

RECURSIVE BS_first_common(_, _, _)
BS_first_common(s, current, v) ==
    IF s.hung THEN s
    ELSE IF s.fuel = 0 THEN [s EXCEPT !.hung = TRUE]
    ELSE IF KAt(s.parent, current) = ABSENT THEN [s EXCEPT !.bb = v]
    ELSE IF KAt(s.base, current) \in s.path_v
    THEN [s EXCEPT !.bb = KAt(s.base, current)]
    ELSE IF current = KAt(s.parent, current) THEN [s EXCEPT !.bb = v]
    ELSE BS_first_common([s EXCEPT !.fuel = @ - 1], KAt(s.parent, current), v)

\* the return value is left in field bb
BS_find_blossom(s, v, w) ==
    BS_first_common(BS_mark_ancestors([s EXCEPT !.path_v = {}], v), w, v)

RECURSIVE BS_contract_walk(_, _, _)
BS_contract_walk(s, blossom_base, current) ==
    IF s.hung THEN s
    ELSE IF s.fuel = 0 THEN [s EXCEPT !.hung = TRUE]
    ELSE IF KAt(s.base, current) = blossom_base THEN s
    ELSE LET s1 == [s EXCEPT !.base = KPut(@, current, blossom_base),
                            !.fuel = @ - 1]
             mc == KAt(s1.mate, current)
         IN IF mc # NIL
            THEN LET s2 == BS_parent_at(
                               [s1 EXCEPT !.base = KPut(@, mc, blossom_base)], mc)
                 IN BS_contract_walk(s2, blossom_base, KAt(s2.parent, mc))
            ELSE s1

BS_contract_blossom(s, blossom_base, v, w) ==
    LET s1 == BS_contract_walk(BS_contract_walk(s, blossom_base, v),
                               blossom_base, w)
    IN IF s1.hung THEN s1
       ELSE [s1 EXCEPT !.base = KPut(KPut(@, v, blossom_base), w, blossom_base)]

RECURSIVE BS_build_path_walk(_, _, _)
BS_build_path_walk(s, path, current) ==
    IF s.fuel = 0 THEN [s EXCEPT !.hung = TRUE]
    ELSE IF KAt(s.parent, current) # ABSENT /\ KAt(s.parent, current) # current
    THEN BS_build_path_walk([s EXCEPT !.fuel = @ - 1],
                            Append(path, KAt(s.parent, current)),
                            KAt(s.parent, current))
    ELSE [s EXCEPT !.path = path]

\* build_path without the free vertex w in front
BS_build_path_from_v(s, v, w) == BS_build_path_walk(s, <<v>>, v)

\* the return value is left in field path
BS_build_path(s, v, w) == BS_build_path_walk(s, <<w, v>>, v)

RECURSIVE BS_augment(_, _, _)
BS_augment(mate, path, i) ==
    IF i + 1 >= Len(path) THEN mate
    ELSE BS_augment(KPut(KPut(mate, At(path, i), At(path, i + 1)),
                         At(path, i + 1), At(path, i)), path, i + 2)

RECURSIVE BS_scan(_, _, _, _)

\* BS_scan: the rest of the block once s3 is known
BS_scan_s3(adj, v, i, s2, s3) ==
    BS_scan(adj, [s3 EXCEPT !.q = Append(@, s2.bb)],
            v, i + 1)

\* for (w : graph[v]), from position i of the traversal
BS_scan(adj, s, v, i) ==
    IF s.hung \/ s.found \/ i > Len(KAt(adj, v)) THEN s
    ELSE LET w == KAt(adj, v)[i]
         IN IF KAt(s.base, v) = KAt(s.base, w) THEN BS_scan(adj, s, v, i + 1)
            ELSE IF KAt(s.mate, w) = NIL
            THEN [BS_build_path(s, v, w) EXCEPT !.found = TRUE]
            ELSE IF KAt(s.parent, w) = ABSENT
            THEN LET mate_w == KAt(s.mate, w)
                     s1 == [s EXCEPT !.parent = KPut(@, w, v)]
                 IN IF mate_w # NIL
                    THEN BS_scan(adj, [s1 EXCEPT !.parent = KPut(@, mate_w, w),
                                                 !.q = Append(@, mate_w)],
                                 v, i + 1)
                    ELSE BS_scan(adj, s1, v, i + 1)
            ELSE LET s1 == BS_is_outer(s, w)
                 IN IF s1.outer
                    THEN LET s2 == BS_find_blossom(s1, v, w)
                         IN BS_scan_s3(adj, v, i, s2,
                                BS_contract_blossom(s2, s2.bb, v, w))
                    ELSE BS_scan(adj, s1, v, i + 1)

RECURSIVE BS_bfs(_, _)
BS_bfs(adj, s) ==
    IF s.hung \/ s.found \/ s.q = <<>> THEN s
    ELSE IF s.fuel = 0 THEN [s EXCEPT !.hung = TRUE]
    ELSE BS_bfs(adj, BS_scan(adj, [s EXCEPT !.q = Tail(@), !.fuel = @ - 1],
                             Head(s.q), 1))

\* find_augmenting_path up to the while loop: the maps are cleared, start
\* is its own parent and the only queued vertex
BS_search_begin(s, start) ==
    [s EXCEPT !.parent = KPut(Fill(Len(s.vertices) + 1, ABSENT), start, start),
              !.base = <<NIL>> \o Iota(Len(s.vertices)),
              !.q = <<start>>, !.found = FALSE, !.path = <<>>,
              !.fuel = MaxSteps]

\* the returned path is field path when field found is set, else empty
BS_find_augmenting_path(adj, s, start) ==
    BS_bfs(adj, BS_search_begin(s, start))

RECURSIVE BS_try(_, _, _)

\* BS_try: the rest of the block once s1 is known
BS_try_s1(adj, i, s1) ==
    IF s1.hung THEN s1
    ELSE IF s1.found
    THEN [s1 EXCEPT !.mate = BS_augment(@, s1.path, 0),
                    !.improved = TRUE]
    ELSE BS_try(adj, s1, i + 1)

\* for (v : vertices) of one pass of while (improved)
BS_try(adj, s, i) ==
    IF s.hung \/ i > Len(s.vertices) THEN s
    ELSE IF KAt(s.mate, s.vertices[i]) # NIL THEN BS_try(adj, s, i + 1)
    ELSE BS_try_s1(adj, i, BS_find_augmenting_path(adj, s, s.vertices[i]))

\* one pass of while (improved); locals do not outlive it
BS_stage(adj, m) ==
    [BS_try(adj, [m EXCEPT !.improved = FALSE], 1)
        EXCEPT !.q = <<>>, !.path_v = {}, !.path = <<>>, !.outer = FALSE,
               !.bb = NIL, !.found = FALSE, !.fuel = 0]

RECURSIVE BS_loop(_, _, _)

\* BS_loop: the rest of the block once m1 is known
BS_loop_m1(adj, bound, m1) ==
    IF m1.hung \/ ~m1.improved THEN m1 ELSE BS_loop(adj, m1, bound - 1)

BS_loop(adj, m, bound) ==
    IF bound = 0 THEN [m EXCEPT !.hung = TRUE]
    ELSE BS_loop_m1(adj, bound, BS_stage(adj, m))

\* the elements of order that are in S, in that order
RECURSIVE Restrict(_, _)
Restrict(order, S) ==
    IF order = <<>> THEN <<>>
    ELSE IF Head(order) \in S THEN <<Head(order)>> \o Restrict(Tail(order), S)
    ELSE Restrict(Tail(order), S)

RECURSIVE BS_adjacency(_, _, _, _)
BS_adjacency(k, el, order, v) ==
    IF v >= k THEN <<>>
    ELSE <<Restrict(order, Neighbours(k, el, v))>>
         \o BS_adjacency(k, el, order, v + 1)

\* the constructor's graph: key "" has no adjacency set
BS_BuildGraph(k, el, order) == <<<<>>>> \o BS_adjacency(k, el, order, 0)

\* members after the constructor, vertices traversed in the given order
BS_new(k, order) ==
    [vertices |-> order, mate |-> Fill(k + 1, NIL),
     parent |-> Fill(k + 1, ABSENT), base |-> Fill(k + 1, NIL),
     improved |-> TRUE, q |-> <<>>, path_v |-> {}, path |-> <<>>,
     outer |-> FALSE, bb |-> NIL, found |-> FALSE, hung |-> FALSE, fuel |-> 0]

\* the result loop of maximum_matching: pairs (u, mate[u]) in traversal order
RECURSIVE BS_result(_, _, _, _)
BS_result(vertices, mate, i, seen) ==
    IF i > Len(vertices) THEN <<>>
    ELSE LET u == vertices[i]
             v == KAt(mate, u)
         IN IF v # NIL /\ v \notin seen
            THEN <<<<u, v>>>> \o BS_result(vertices, mate, i + 1, seen \cup {u})
            ELSE BS_result(vertices, mate, i + 1, seen)

BS_collect(m) == BS_result(m.vertices, m.mate, 1, {})

(***************************************************************************)
(* HOPCROFT-KARP (hopcroft_karp.cpp).  Left vertex "Li" is the integer i   *)
(* and right vertex "Rj" the integer j in the members; the empty string    *)
(* is NIL.  pair_left and pair_right are sequences over the indices, dist  *)
(* is a sequence over the keys "", "L0", ..., key x at position x + 2.     *)
(* graph[u] is a vector: it keeps the input order and repeated edges.      *)
(* The set left is traversed in an order the constructor fixes.            *)
(***************************************************************************)
INT32_MAX == 2147483647

\* dist[u] + 1 in 32-bit int
HK_succ(d) == IF d = INT32_MAX THEN -INT32_MAX - 1 ELSE d + 1

\* for (u : left) of bfs, from position i of the traversal
RECURSIVE HK_bfs_init(_, _)
HK_bfs_init(s, i) ==
    IF i > Len(s.left) THEN s
    ELSE LET u == s.left[i]
         IN IF At(s.pair_left, u) = NIL
            THEN HK_bfs_init([s EXCEPT !.dist = KPut(@, u, 0),
                                       !.q = Append(@, u)], i + 1)
            ELSE HK_bfs_init([s EXCEPT !.dist = KPut(@, u, INT32_MAX)], i + 1)

RECURSIVE HK_bfs_edges(_, _, _, _)
HK_bfs_edges(g, s, u, i) ==
    IF i > Len(At(g, u)) THEN s
    ELSE LET paired_node == At(s.pair_right, At(g, u)[i])
         IN IF KAt(s.dist, paired_node) = INT32_MAX
            THEN LET s1 == [s EXCEPT
                             !.dist = KPut(@, paired_node, HK_succ(KAt(s.dist, u))),
                             !.overflow = @ \/ KAt(s.dist, u) = INT32_MAX]
                 IN HK_bfs_edges(g, IF paired_node # NIL
                                    THEN [s1 EXCEPT !.q = Append(@, paired_node)]
                                    ELSE s1, u, i + 1)
            ELSE HK_bfs_edges(g, s, u, i + 1)

RECURSIVE HK_bfs_loop(_, _)
HK_bfs_loop(g, s) ==
    IF s.q = <<>> THEN s
    ELSE LET u == Head(s.q)
             s1 == [s EXCEPT !.q = Tail(@)]
         IN IF KAt(s.dist, u) < KAt(s.dist, NIL)
            THEN HK_bfs_loop(g, HK_bfs_edges(g, s1, u, 1))
            ELSE HK_bfs_loop(g, s1)

\* bfs: the return value is left in field reached
\* faulty variant: no layer is built
HK_bfs_blind(g, s) == [s EXCEPT !.reached = FALSE]

HK_bfs(g, s) ==
    LET s1 == HK_bfs_init([s EXCEPT !.q = <<>>], 1)
        s2 == HK_bfs_loop(g, [s1 EXCEPT !.dist = KPut(@, NIL, INT32_MAX)])
    IN [s2 EXCEPT !.reached = (KAt(s2.dist, NIL) # INT32_MAX)]

\* dfs: the return value is left in field ok
RECURSIVE HK_dfs(_, _, _)
RECURSIVE HK_dfs_edges(_, _, _, _)
HK_dfs(g, s, u) ==
    IF u = NIL THEN [s EXCEPT !.ok = TRUE] ELSE HK_dfs_edges(g, s, u, 1)

\* faulty variant: pair_left[u] = v is written, pair_right[v] = u is not
RECURSIVE HK_dfs_edges_oneway(_, _, _, _)
HK_dfs_edges_oneway(g, s, u, i) ==
    IF i > Len(At(g, u))
    THEN [s EXCEPT !.dist = KPut(@, u, INT32_MAX), !.ok = FALSE]
    ELSE LET v == At(g, u)[i]
             paired_node == At(s.pair_right, v)
             s0 == [s EXCEPT !.overflow = @ \/ KAt(s.dist, u) = INT32_MAX]
         IN IF KAt(s.dist, paired_node) = HK_succ(KAt(s.dist, u))
            THEN LET s1 == HK_dfs(g, s0, paired_node)
                 IN IF s1.ok
                    THEN [s1 EXCEPT !.pair_left = Put(@, u, v)]
                    ELSE HK_dfs_edges_oneway(g, s1, u, i + 1)
            ELSE HK_dfs_edges_oneway(g, s0, u, i + 1)

HK_dfs_edges(g, s, u, i) ==
    IF i > Len(At(g, u))
    THEN [s EXCEPT !.dist = KPut(@, u, INT32_MAX), !.ok = FALSE]
    ELSE LET v == At(g, u)[i]
             paired_node == At(s.pair_right, v)
             s0 == [s EXCEPT !.overflow = @ \/ KAt(s.dist, u) = INT32_MAX]
         IN IF KAt(s.dist, paired_node) = HK_succ(KAt(s.dist, u))
            THEN LET s1 == HK_dfs(g, s0, paired_node)
                 IN IF s1.ok
                    THEN [s1 EXCEPT !.pair_right = Put(@, v, u),
                                    !.pair_left = Put(@, u, v)]
                    ELSE HK_dfs_edges(g, s1, u, i + 1)
            ELSE HK_dfs_edges(g, s0, u, i + 1)

\* the body of for (u : left) of maximum_matching
HK_phase_vertex(g, s, u) ==
    IF At(s.pair_left, u) # NIL THEN s
    ELSE LET s1 == HK_dfs(g, s, u)
         IN IF s1.ok THEN [s1 EXCEPT !.matching_size = @ + 1] ELSE s1

\* for (u : left) of one pass of while (bfs())
RECURSIVE HK_phase(_, _, _)
HK_phase(g, s, i) ==
    IF i > Len(s.left) THEN s
    ELSE HK_phase(g, HK_phase_vertex(g, s, s.left[i]), i + 1)

\* the test of while (bfs()) and, when it holds, the body
HK_stage(g, m) ==
    LET s1 == HK_bfs(g, m)
    IN [(IF s1.reached THEN HK_phase(g, s1, 1) ELSE s1)
           EXCEPT !.q = <<>>, !.ok = FALSE]

RECURSIVE HK_loop(_, _, _)

\* HK_loop: the rest of the block once m1 is known
HK_loop_m1(g, bound, m1) ==
    IF ~m1.reached THEN m1 ELSE HK_loop(g, m1, bound - 1)

HK_loop(g, m, bound) ==
    IF bound = 0 THEN [m EXCEPT !.hung = TRUE]
    ELSE HK_loop_m1(g, bound, HK_stage(g, m))

\* graph[u] of the constructor: the right ends of u's edges, in input order
RECURSIVE HK_targets(_, _, _, _)
HK_targets(nl, nr, el, u) ==
    IF el = <<>> THEN <<>>
    ELSE LET e == Head(el)
             rest == HK_targets(nl, nr, Tail(el), u)
         IN IF e[1] = u /\ e[1] \in Verts(nl) /\ e[2] \in Verts(nr)
            THEN <<e[2]>> \o rest ELSE rest

RECURSIVE HK_adjacency(_, _, _, _)
HK_adjacency(nl, nr, el, u) ==
    IF u >= nl THEN <<>>
    ELSE <<HK_targets(nl, nr, el, u)>> \o HK_adjacency(nl, nr, el, u + 1)

HK_BuildGraph(nl, nr, el) == HK_adjacency(nl, nr, el, 0)

\* members after the constructor, left traversed in the given order
HK_new(nl, nr, order) ==
    [left |-> order, pair_left |-> Fill(nl, NIL), pair_right |-> Fill(nr, NIL),
     dist |-> Fill(nl + 1, 0), matching_size |-> 0, q |-> <<>>,
     reached |-> FALSE, ok |-> FALSE, overflow |-> FALSE, hung |-> FALSE]

\* the strings "L0".."L9" sort before the strings "R0".."R9"
RightBase == 10

\* the result loop of maximum_matching: pairs (u, pair_left[u]) in the
\* traversal order of left
RECURSIVE HK_result(_, _, _)
HK_result(left, pair_left, i) ==
    IF i > Len(left) THEN <<>>
    ELSE IF At(pair_left, left[i]) # NIL
    THEN <<<<left[i], RightBase + At(pair_left, left[i])>>>>
         \o HK_result(left, pair_left, i + 1)
    ELSE HK_result(left, pair_left, i + 1)

HK_collect(m) == HK_result(m.left, m.pair_left, 1)

\* the constructor of micali_vazirani.cpp builds the adjacency the same way
MVH_BuildGraph(k, el) == [v \in Verts(k) |-> SortInts(GO2_pushed(k, el, v, 1))]

\* graph[u] is indexed with a negative u: no lower bound is tested
GO2_out_of_range(k, el) ==
    \E i \in 1..Len(el) :
        /\ el[i][1] < k /\ el[i][2] < k /\ el[i][1] # el[i][2]
        /\ (el[i][1] < 0 \/ el[i][2] < 0)

MVH_out_of_range(k, el) ==
    \E i \in 1..Len(el) :
        /\ el[i][1] < k /\ el[i][2] < k /\ el[i][1] # el[i][2]
        /\ (el[i][1] < 0 \/ el[i][2] < 0)

(***************************************************************************)
(* Inputs.  A general-graph input is <<n, 0, edge list>>, a bipartite one  *)
(* <<left count, right count, edge list>>; edge lists are in the order of  *)
(* the input file.                                                         *)
(***************************************************************************)
GraphInputs ==
    UNION {{<<k, 0, SortedPairs(E)>> : E \in SUBSET AllPairs(k)} : k \in 0..MaxN}

\* a blossom on a stem whose tip is adjacent to two exposed vertices
StemBlossomA ==
    <<6, 0, <<<<0, 2>>, <<0, 3>>, <<0, 5>>, <<1, 2>>, <<1, 3>>, <<1, 4>>, <<2, 3>>>>>>

StemBlossomB ==
    <<6, 0, <<<<0, 2>>, <<0, 4>>, <<0, 5>>, <<1, 2>>, <<1, 3>>, <<1, 5>>, <<2, 3>>>>>>

\* the augmenting path of the cold BLOSSOM-FOREST run crosses a nested blossom
NestedBlossom ==
    <<6, 0, <<<<0, 1>>, <<0, 2>>, <<0, 3>>, <<0, 4>>, <<1, 5>>, <<3, 4>>, <<3, 5>>>>>>

\* scenario S6 of the specification
ScenarioS6 ==
    <<7, 0, <<<<0, 1>>, <<1, 2>>, <<2, 3>>, <<3, 4>>, <<4, 5>>, <<5, 6>>, <<6, 2>>,
              <<5, 2>>>>>>

\* a self-loop, a repeated edge in both orientations, an endpoint >= n
UntidyInput ==
    <<4, 0, <<<<1, 1>>, <<0, 1>>, <<1, 0>>, <<0, 1>>, <<1, 4>>, <<2, 3>>, <<3, 2>>>>>>

\* a negative endpoint
NegativeInput == <<3, 0, <<<<0, 1>>, <<-1, 2>>, <<1, 2>>>>>>

ScenarioInputs ==
    {StemBlossomA, StemBlossomB, NestedBlossom, ScenarioS6, UntidyInput,
     NegativeInput}

BipartiteInputs ==
    UNION {{<<l, r, SortedPairs(E)>> : E \in SUBSET (Verts(l) \X Verts(r))} :
           <<l, r>> \in (0..MaxSide) \X (0..MaxSide)}

\* scenario S4 of the specification: complete bipartite K(4,3)
ScenarioS4 == <<4, 3, SortedPairs(Verts(4) \X Verts(3))>>

\* a repeated edge and endpoints outside the two sides
UntidyBipartite ==
    <<2, 2, <<<<0, 0>>, <<0, 0>>, <<2, 1>>, <<1, 2>>, <<1, 0>>, <<1, 1>>>>>>

\* the traversal orders tried for a hash container of k keys
Perms(k) ==
    {p \in [1..k -> Verts(k)] : \A i, j \in 1..k : p[i] = p[j] => i = j}

Orders(k) ==
    IF k <= MaxPermN THEN Perms(k) ELSE {Iota(k), Reverse(Iota(k))}

Engines == {"gs", "bf", "mvp", "go1", "go2", "mvh", "bs", "hk"}

\* the engines whose top-level call takes greedy_mode
WarmEngines == {"gs", "bf", "mvp"}

InputsOf(e) ==
    IF e = "hk" THEN BipartiteInputs \cup {ScenarioS4, UntidyBipartite}
    ELSE GraphInputs \cup ScenarioInputs

InitFor(E) ==
    /\ engine \in E
    /\ mode \in (IF engine \in WarmEngines THEN {0, 1, 2} ELSE {0})
    /\ \E inp \in InputsOf(engine) :
          /\ n = inp[1]
          /\ right_count = inp[2]
          /\ edges_in = inp[3]
    /\ pc = "start"
    /\ graph = <<>>
    /\ st = <<>>
    /\ result = <<>>
    /\ stages = 0

Init == InitFor(Engines)

input == <<engine, n, right_count, edges_in, mode>>

StageDone == IF stages < MaxStages THEN stages + 1 ELSE stages

(***************************************************************************)
(* GABOW-SIMPLE: GabowSimple(n, edges); maximum_matching(greedy_mode).     *)
(***************************************************************************)
GS_Construct ==
    /\ pc = "start" /\ engine = "gs"
    /\ graph' = BuildGraph(n, edges_in)
    /\ st' = GS_new(n)
    /\ pc' = "built"
    /\ UNCHANGED <<input, result, stages>>

GS_Greedy ==
    /\ pc = "built" /\ engine = "gs"
    /\ st' = GS_greedy(n, graph, st, mode)
    /\ pc' = "run"
    /\ UNCHANGED <<input, graph, result, stages>>

GS_Stage ==
    /\ pc = "run" /\ engine = "gs"
    /\ st' = GS_find_and_augment(n, graph, st)
    /\ pc' = IF st'.hung THEN "hung"
             ELSE IF st'.augmented THEN "run" ELSE "collect"
    /\ stages' = StageDone
    /\ UNCHANGED <<input, graph, result>>

GS_Finish ==
    /\ pc = "collect" /\ engine = "gs"
    /\ result' = GS_collect(n, st)
    /\ pc' = "done"
    /\ UNCHANGED <<input, graph, st, stages>>

NextGS == GS_Construct \/ GS_Greedy \/ GS_Stage \/ GS_Finish

(***************************************************************************)
(* BLOSSOM-FOREST: Solver(n, edges); solve(greedy_mode).                   *)
(***************************************************************************)
BF_Construct ==
    /\ pc = "start" /\ engine = "bf"
    /\ graph' = BuildGraph(n, edges_in)
    /\ st' = BF_new(n)
    /\ pc' = "built"
    /\ UNCHANGED <<input, result, stages>>

BF_Greedy ==
    /\ pc = "built" /\ engine = "bf"
    /\ st' = BF_greedy(n, graph, st, mode)
    /\ pc' = "run"
    /\ UNCHANGED <<input, graph, result, stages>>

BF_Stage ==
    /\ pc = "run" /\ engine = "bf"
    /\ st' = BF_stage(n, graph, st)
    /\ pc' = IF st'.hung THEN "hung"
             ELSE IF st'.augmented THEN "run" ELSE "collect"
    /\ stages' = StageDone
    /\ UNCHANGED <<input, graph, result>>

BF_Finish ==
    /\ pc = "collect" /\ engine = "bf"
    /\ result' = BF_collect(n, st)
    /\ pc' = "done"
    /\ UNCHANGED <<input, graph, st, stages>>

NextBF == BF_Construct \/ BF_Greedy \/ BF_Stage \/ BF_Finish

(***************************************************************************)
(* MV-pure: build, greedy, max_match, get_matching.  max_match runs one    *)
(* phase unconditionally and then phases while matchnum and found allow.   *)
(***************************************************************************)
MVP_Construct ==
    /\ pc = "start" /\ engine = "mvp"
    /\ graph' = BuildGraph(n, edges_in)
    /\ st' = MVP_new(n)
    /\ pc' = "built"
    /\ UNCHANGED <<input, result, stages>>

MVP_Greedy ==
    /\ pc = "built" /\ engine = "mvp"
    /\ st' = MVP_greedy(n, graph, st, mode)
    /\ pc' = "first"
    /\ UNCHANGED <<input, graph, result, stages>>

MVP_Stage ==
    /\ pc \in {"first", "run"} /\ engine = "mvp"
    /\ st' = IF pc = "first" THEN MVP_first_phase(graph, st)
             ELSE MVP_next_phase(graph, st)
    /\ pc' = IF st'.hung THEN "hung"
             ELSE IF MVP_continue(st') THEN "run" ELSE "collect"
    /\ stages' = StageDone
    /\ UNCHANGED <<input, graph, result>>

MVP_Finish ==
    /\ pc = "collect" /\ engine = "mvp"
    /\ result' = MVP_get_matching(st.nodes, 1)
    /\ pc' = "done"
    /\ UNCHANGED <<input, graph, st, stages>>

NextMVP == MVP_Construct \/ MVP_Greedy \/ MVP_Stage \/ MVP_Finish

(***************************************************************************)
(* GABOW-SCALING (gabow_optimized-v1.cpp): maximum_matching starts with    *)
(* its own greedy pass, then while (phase_1()) phase_2().                  *)
(***************************************************************************)
GO1_Construct ==
    /\ pc = "start" /\ engine = "go1"
    /\ graph' = BuildGraph(n, edges_in)
    /\ st' = GO1_new(n)
    /\ pc' = "built"
    /\ UNCHANGED <<input, result, stages>>

GO1_Greedy ==
    /\ pc = "built" /\ engine = "go1"
    /\ st' = GO1_greedy(n, graph, st)
    /\ pc' = "run"
    /\ UNCHANGED <<input, graph, result, stages>>

GO1_Stage ==
    /\ pc = "run" /\ engine = "go1"
    /\ st' = GO1_stage(graph, st)
    /\ pc' = IF st'.hung THEN "hung"
             ELSE IF st'.found_sap THEN "run" ELSE "collect"
    /\ stages' = StageDone
    /\ UNCHANGED <<input, graph, result>>

GO1_Finish ==
    /\ pc = "collect" /\ engine = "go1"
    /\ result' = GO1_collect(n, st)
    /\ pc' = "done"
    /\ UNCHANGED <<input, graph, st, stages>>

NextGO1 == GO1_Construct \/ GO1_Greedy \/ GO1_Stage \/ GO1_Finish

(***************************************************************************)
(* The second GABOW-SCALING file (gabow_optimized.cpp):                    *)
(* while (phase_1()) phase_2(), one action per phase.                      *)
(***************************************************************************)
GO2_Construct ==
    /\ pc = "start" /\ engine = "go2"
    /\ ~GO2_out_of_range(n, edges_in)
    /\ graph' = GO2_BuildGraph(n, edges_in)
    /\ st' = GO2_new(n)
    /\ pc' = "run"
    /\ UNCHANGED <<input, result, stages>>

\* graph[u] with u < 0 is outside the vector: the run ends abnormally
GO2_ConstructFault ==
    /\ pc = "start" /\ engine = "go2"
    /\ GO2_out_of_range(n, edges_in)
    /\ pc' = "crashed"
    /\ UNCHANGED <<input, graph, st, result, stages>>

\* the locals of phase_1 go out of scope unless phase_2 follows at once
GO2_phase_1_done(m) ==
    IF m.hung \/ ~m.found THEN GO2_locals_cleared(m) ELSE m

GO2_Phase1 ==
    /\ pc = "run" /\ engine = "go2"
    /\ st' = GO2_phase_1_done(GO2_phase_1(graph, st))
    /\ pc' = IF st'.hung THEN "hung"
             ELSE IF st'.found THEN "augment" ELSE "collect"
    /\ UNCHANGED <<input, graph, result, stages>>

GO2_Phase2 ==
    /\ pc = "augment" /\ engine = "go2"
    /\ st' = GO2_locals_cleared(GO2_phase_2(graph, st))
    /\ pc' = IF st'.hung THEN "hung" ELSE "run"
    /\ stages' = StageDone
    /\ UNCHANGED <<input, graph, result>>

GO2_Finish ==
    /\ pc = "collect" /\ engine = "go2"
    /\ result' = GO2_collect(st)
    /\ pc' = "done"
    /\ UNCHANGED <<input, graph, st, stages>>

NextGO2 ==
    GO2_Construct \/ GO2_ConstructFault \/ GO2_Phase1 \/ GO2_Phase2 \/ GO2_Finish

(***************************************************************************)
(* The hybrid MV file (micali_vazirani.cpp):                               *)
(* while (true) { phase_1(); if (!phase_2()) break; }                      *)
(***************************************************************************)
MVH_Construct ==
    /\ pc = "start" /\ engine = "mvh"
    /\ ~MVH_out_of_range(n, edges_in)
    /\ graph' = MVH_BuildGraph(n, edges_in)
    /\ st' = MVH_new(n)
    /\ pc' = "run"
    /\ UNCHANGED <<input, result, stages>>

MVH_ConstructFault ==
    /\ pc = "start" /\ engine = "mvh"
    /\ MVH_out_of_range(n, edges_in)
    /\ pc' = "crashed"
    /\ UNCHANGED <<input, graph, st, result, stages>>

MVH_Stage ==
    /\ pc = "run" /\ engine = "mvh"
    /\ st' = MVH_stage(graph, st)
    /\ pc' = IF st'.hung THEN "hung"
             ELSE IF st'.found THEN "run" ELSE "collect"
    /\ stages' = StageDone
    /\ UNCHANGED <<input, graph, result>>

MVH_Finish ==
    /\ pc = "collect" /\ engine = "mvh"
    /\ result' = MVH_collect(st)
    /\ pc' = "done"
    /\ UNCHANGED <<input, graph, st, stages>>

NextMVH == MVH_Construct \/ MVH_ConstructFault \/ MVH_Stage \/ MVH_Finish

(***************************************************************************)
(* BLOSSOM-SIMPLE: the constructor fixes the traversal order.              *)
(***************************************************************************)
BS_Construct ==
    /\ pc = "start" /\ engine = "bs"
    /\ \E order \in Orders(n) :
          /\ graph' = BS_BuildGraph(n, edges_in, order)
          /\ st' = BS_new(n, order)
    /\ pc' = "run"
    /\ UNCHANGED <<input, result, stages>>

BS_Stage ==
    /\ pc = "run" /\ engine = "bs"
    /\ st' = BS_stage(graph, st)
    /\ pc' = IF st'.hung THEN "hung"
             ELSE IF st'.improved THEN "run" ELSE "collect"
    /\ stages' = StageDone
    /\ UNCHANGED <<input, graph, result>>

BS_Finish ==
    /\ pc = "collect" /\ engine = "bs"
    /\ result' = BS_collect(st)
    /\ pc' = "done"
    /\ UNCHANGED <<input, graph, st, stages>>

NextBS == BS_Construct \/ BS_Stage \/ BS_Finish

(***************************************************************************)
(* HOPCROFT-KARP: the constructor fixes the traversal order of left; a     *)
(* stage is the test of while (bfs()) and, when it holds, the body.        *)
(***************************************************************************)
HK_Construct ==
    /\ pc = "start" /\ engine = "hk"
    /\ \E order \in Orders(n) :
          st' = HK_new(n, right_count, order)
    /\ graph' = HK_BuildGraph(n, right_count, edges_in)
    /\ pc' = "run"
    /\ UNCHANGED <<input, result, stages>>

HK_Stage ==
    /\ pc = "run" /\ engine = "hk"
    /\ st' = HK_stage(graph, st)
    /\ pc' = IF st'.reached THEN "run" ELSE "collect"
    /\ stages' = StageDone
    /\ UNCHANGED <<input, graph, result>>

HK_Finish ==
    /\ pc = "collect" /\ engine = "hk"
    /\ result' = HK_collect(st)
    /\ pc' = "done"
    /\ UNCHANGED <<input, graph, st, stages>>

NextHK == HK_Construct \/ HK_Stage \/ HK_Finish

Next ==
    NextGS \/ NextBF \/ NextMVP \/ NextGO1 \/ NextGO2 \/ NextMVH \/ NextBS
    \/ NextHK

Spec == Init /\ [][Next]_vars

SpecGS == InitFor({"gs"}) /\ [][NextGS]_vars

SpecBF == InitFor({"bf"}) /\ [][NextBF]_vars

SpecMVP == InitFor({"mvp"}) /\ [][NextMVP]_vars

SpecGO1 == InitFor({"go1"}) /\ [][NextGO1]_vars

SpecHK == InitFor({"hk"}) /\ [][NextHK]_vars

\* the three engines with a greedy_mode argument, all three modes
SpecWarm == InitFor(WarmEngines) /\ [][NextGS \/ NextBF \/ NextMVP]_vars

\* every arrangement of the set S as a sequence
SeqsOf(S) ==
    {p \in [1..Cardinality(S) -> S] :
        \A i, j \in 1..Cardinality(S) : p[i] = p[j] => i = j}

\* inputs whose edge list is given in every order
PermutedGraphInputs ==
    UNION {{<<k, 0, p>> : p \in UNION {SeqsOf(E) :
                 E \in {D \in SUBSET AllPairs(k) : Cardinality(D) <= MaxPermEdges}}} :
           k \in 0..MaxPermN}
    \cup {NegativeInput}

PermutedBipartiteInputs ==
    UNION {{<<lr[1], lr[2], p>> : p \in UNION {SeqsOf(E) :
                 E \in {D \in SUBSET (Verts(lr[1]) \X Verts(lr[2])) :
                          Cardinality(D) <= MaxPermEdges}}} :
           lr \in (0..MaxSide) \X (0..MaxSide)}

InitPermuted ==
    /\ engine \in Engines
    /\ mode \in (IF engine \in WarmEngines THEN {0, 1, 2} ELSE {0})
    /\ \E inp \in (IF engine = "hk" THEN PermutedBipartiteInputs
                    ELSE PermutedGraphInputs) :
          /\ n = inp[1]
          /\ right_count = inp[2]
          /\ edges_in = inp[3]
    /\ pc = "start"
    /\ graph = <<>>
    /\ st = <<>>
    /\ result = <<>>
    /\ stages = 0

\* all engines, edge lists in every order
SpecPermuted == InitPermuted /\ [][Next]_vars

(***************************************************************************)
(* Reference notions, computed from the input alone.  A pair is written    *)
(* as the engines return it: <<u, v>> for a general graph, and             *)
(* <<left, RightBase + right>> for a bipartite one.                        *)
(***************************************************************************)
Max(S) == CHOOSE x \in S : \A y \in S : x >= y

Norm(p) == IF p[1] <= p[2] THEN p ELSE <<p[2], p[1]>>

\* the edges of the normalized input graph
InputEdges ==
    IF engine = "hk"
    THEN {<<edges_in[i][1], RightBase + edges_in[i][2]>> :
            i \in {j \in 1..Len(edges_in) :
                     /\ edges_in[j][1] \in Verts(n)
                     /\ edges_in[j][2] \in Verts(right_count)}}
    ELSE {Norm(edges_in[i]) :
            i \in {j \in 1..Len(edges_in) : ValidEdge(n, edges_in[j])}}

Touching(E, x) == {e \in E : e[1] = x \/ e[2] = x}

Ends(E) == {e[1] : e \in E} \cup {e[2] : e \in E}

OtherEnd(e, x) == IF e[1] = x THEN e[2] ELSE e[1]

\* the size of a largest matching of E, by exhaustive search: the smallest
\* vertex with an edge stays unmatched or takes one of its edges
RECURSIVE MaxMatching(_)
MaxMatching(E) ==
    IF E = {} THEN 0
    ELSE Max({MaxMatching(E \ Touching(E, MinPair(E)[1]))}
             \cup {1 + MaxMatching(E \ (Touching(E, e[1]) \cup Touching(E, e[2]))) :
                     e \in Touching(E, MinPair(E)[1])})

IsCovered(M, x) == \E e \in M : e[1] = x \/ e[2] = x

MateIn(M, x) == OtherEnd(CHOOSE e \in M : e[1] = x \/ e[2] = x, x)

\* a simple alternating path leaves x over an edge outside M and ends at an
\* exposed vertex; x was entered over a matched edge or is the exposed start
RECURSIVE AltPathFrom(_, _, _, _)
AltPathFrom(E, M, x, seen) ==
    \E e \in Touching(E, x) \ M :
        /\ OtherEnd(e, x) \notin seen
        /\ \/ ~IsCovered(M, OtherEnd(e, x))
           \/ /\ IsCovered(M, OtherEnd(e, x))
              /\ MateIn(M, OtherEnd(e, x)) \notin seen
              /\ AltPathFrom(E, M, MateIn(M, OtherEnd(e, x)),
                             seen \cup {OtherEnd(e, x), MateIn(M, OtherEnd(e, x))})

HasAugmentingPath(E, M) ==
    \E x \in Ends(E) : ~IsCovered(M, x) /\ AltPathFrom(E, M, x, {x})

\* the size of a smallest vertex cover of E
MinVertexCover(E) ==
    Min({Cardinality(C) : C \in {D \in SUBSET Ends(E) :
                                   \A e \in E : e[1] \in D \/ e[2] \in D}})

\* v is in the adjacency list of u in the graph the constructor built
Adjacent(u, v) ==
    IF engine = "hk"
    THEN u \in Verts(n) /\ (v - RightBase) \in SeqSet(At(graph, u))
    ELSE IF engine = "bs"
    THEN u \in Verts(n) /\ v \in SeqSet(KAt(graph, u))
    ELSE u \in Verts(n) /\ v \in SeqSet(graph[u])

ResultPairs == {Norm(result[i]) : i \in 1..Len(result)}

ValidMatching ==
    /\ \A i \in 1..Len(result) :
          /\ result[i][1] # result[i][2]
          /\ Adjacent(result[i][1], result[i][2])
          /\ Norm(result[i]) \in InputEdges
    /\ \A i, j \in 1..Len(result) :
          i # j => {result[i][1], result[i][2]}
                     \cap {result[j][1], result[j][2]} = {}

\* the matching held in the members when the stage loop has ended
CurrentPairs ==
    IF engine = "gs" THEN MatchedPairs(n, st.mate)
    ELSE IF engine = "mvp" THEN SeqSet(MVP_get_matching(st.nodes, 1))
    ELSE MatchedPairs(n, ToMate(n, st.mate))

\* the size of the matching of the cold run (greedy_mode 0) on the graph
ColdSize ==
    IF engine = "gs"
    THEN Len(GS_collect(n, GS_loop(n, graph, GS_new(n), n + 2)))
    ELSE IF engine = "bf"
    THEN Len(BF_collect(n, BF_loop(n, graph, BF_new(n), n + 2)))
    ELSE Len(MVP_get_matching(MVP_max_match(graph, MVP_new(n), n + 2).nodes, 1))

\* the size GABOW-SIMPLE returns for the same vertex count and edge list
GabowSimpleSize ==
    Len(GS_collect(n, GS_loop(n, BuildGraph(n, edges_in), GS_new(n), n + 2)))

(***************************************************************************)
(* Properties.                                                             *)
(***************************************************************************)
\* C1: for every input and every engine, each returned pair (u,v) is an
\* edge of the normalized input graph (v is in the adjacency list of u, so
\* it is no self-loop and no edge absent from the input), and every vertex
\* occurs in at most one returned pair.
C1_ValidMatching == pc = "done" => ValidMatching

\* an engine has returned both edges of an input given with a self-loop,
\* repeated edges and an endpoint out of range
C1_Witness ==
    /\ pc = "done" /\ edges_in = UntidyInput[3]
    /\ result = <<<<0, 1>>, <<2, 3>>>>

\* C2: GABOW-SIMPLE with greedy_mode 0 returns a matching of maximum
\* cardinality: its size is that of a brute-force maximum matching and no
\* augmenting path exists with respect to the returned matching.
C2_GabowSimpleMaximum ==
    (engine = "gs" /\ mode = 0 /\ pc = "done") =>
        /\ Len(result) = MaxMatching(InputEdges)
        /\ ~HasAugmentingPath(InputEdges, ResultPairs)

\* the cold run has matched all six vertices of a graph whose last
\* augmenting path passes through a blossom
C2_Witness ==
    /\ engine = "gs" /\ mode = 0 /\ pc = "done"
    /\ edges_in = StemBlossomA[3] /\ Len(result) = 3 /\ stages = 4

\* C3: BLOSSOM-FOREST with greedy_mode 0 returns a matching of maximum
\* cardinality (the size of a brute-force maximum matching), also on graphs
\* that need nested blossoms to be contracted and augmented through.
C3_BlossomForestMaximum ==
    (engine = "bf" /\ mode = 0 /\ pc = "done") =>
        Len(result) = MaxMatching(InputEdges)

\* the cold run has augmented through a blossom nested in another one and
\* returned a perfect matching
C3_Witness ==
    /\ engine = "bf" /\ mode = 0 /\ pc = "done"
    /\ st.h_nested /\ st.h_depth >= 2
    /\ Len(result) = 3 /\ Len(result) = MaxMatching(InputEdges)

\* C4: MV-pure (max_match, then get_matching) returns a matching of
\* maximum cardinality; when the driver stops, no augmenting path exists
\* with respect to the matching held in the nodes.
C4_MVPureMaximum ==
    /\ (engine = "mvp" /\ pc = "collect") =>
           ~HasAugmentingPath(InputEdges, CurrentPairs)
    /\ (engine = "mvp" /\ pc = "done") =>
           Len(result) = MaxMatching(InputEdges)

\* the driver has stopped below the matchnum bound because its second
\* phase found nothing, on a graph with four edges or more
C4_Witness ==
    /\ engine = "mvp" /\ mode = 0 /\ pc = "collect"
    /\ stages = 2 /\ ~st.found /\ st.matchnum = 1
    /\ Len(st.nodes) \div 2 > st.matchnum
    /\ n = 5 /\ Cardinality(InputEdges) >= 4

\* C5: GABOW-SCALING (gabow_optimized-v1.cpp) returns a matching of maximum
\* cardinality; phase_1 returns false only when no augmenting path exists
\* with respect to the current mate.
C5_GabowScalingMaximum ==
    /\ (engine = "go1" /\ pc = "collect") =>
           ~HasAugmentingPath(InputEdges, CurrentPairs)
    /\ (engine = "go1" /\ pc = "done") =>
           Len(result) = MaxMatching(InputEdges)

\* phase_1 has returned false after a stage that augmented the greedy
\* matching, with an exposed vertex left
C5_Witness ==
    /\ engine = "go1" /\ pc = "collect" /\ stages >= 2
    /\ ~st.found_sap
    /\ Cardinality(CurrentPairs) = 2 /\ n = 5

\* C6: HOPCROFT-KARP returns a matching whose size is the maximum bipartite
\* matching size, which is the size of a minimum vertex cover.
C6_HopcroftKarpMaximum ==
    (engine = "hk" /\ pc = "done") =>
        /\ Len(result) = MaxMatching(InputEdges)
        /\ Len(result) = MinVertexCover(InputEdges)

\* three pairs returned after more than one stage, on a graph that is not
\* complete
C6_Witness ==
    /\ engine = "hk" /\ pc = "done" /\ Len(result) = 3 /\ stages >= 3
    /\ Cardinality(InputEdges) < 9

\* C7: on the same general graph every general-graph engine returns a
\* matching of the same size; BLOSSOM-SIMPLE, gabow_optimized.cpp and
\* micali_vazirani.cpp agree with GABOW-SIMPLE.
C7_CrossEngineAgreement ==
    (engine # "hk" /\ pc = "done") => Len(result) = GabowSimpleSize

\* C8: every engine returns pairs (u,v) with u < v, the sequence being in
\* ascending lexicographic order of (u,v).
C8_SortedOutput ==
    pc = "done" =>
        /\ \A i \in 1..Len(result) : result[i][1] < result[i][2]
        /\ \A i \in 1..(Len(result) - 1) : PairLess(result[i], result[i + 1])

\* C9: for GABOW-SIMPLE, BLOSSOM-FOREST and MV-pure the size of the final
\* matching is the same for greedy_mode 0, 1 and 2.
C9_GreedyMonotonicity ==
    (engine \in WarmEngines /\ pc = "done") => Len(result) = ColdSize

\* a warm run whose greedy matching had to be augmented by the search
C9_Witness ==
    /\ engine \in {"gs", "bf"} /\ mode \in {1, 2} /\ pc = "done"
    /\ stages >= 2 /\ Len(result) = 2 /\ ColdSize = 2

\* C10: the top-level call of every engine runs to completion: the stage
\* loop ends after finitely many stages and every inner loop ends.  The
\* engines are deterministic, so a call that ends never comes back to
\* members it has held before and no loop runs out of its step budget:
\* phase_2 never hands phase_1 the members from which phase_1 produced the
\* ones phase_2 was started with.
C10_Termination ==
    [][/\ pc' # "hung"
       /\ (engine = "go2" /\ pc = "augment" /\ pc' = "run") =>
              GO2_phase_1_done(GO2_phase_1(graph, st')) # st]_vars

\* what the engine returns for the edge list el when its unordered
\* containers are traversed in the given order
ResultForOrder(el, order) ==
    IF engine = "gs"
    THEN GS_collect(n, GS_loop(n, BuildGraph(n, el),
             GS_greedy(n, BuildGraph(n, el), GS_new(n), mode), n + 2))
    ELSE IF engine = "bf"
    THEN BF_collect(n, BF_loop(n, BuildGraph(n, el),
             BF_greedy(n, BuildGraph(n, el), BF_new(n), mode), n + 2))
    ELSE IF engine = "mvp"
    THEN MVP_get_matching(MVP_max_match(BuildGraph(n, el),
             MVP_greedy(n, BuildGraph(n, el), MVP_new(n), mode), n + 2).nodes, 1)
    ELSE IF engine = "go1"
    THEN GO1_collect(n, GO1_loop(BuildGraph(n, el),
             GO1_greedy(n, BuildGraph(n, el), GO1_new(n)), n + 2))
    ELSE IF engine = "go2"
    THEN GO2_collect(GO2_loop(GO2_BuildGraph(n, el), GO2_new(n), n + 2))
    ELSE IF engine = "mvh"
    THEN MVH_collect(MVH_loop(MVH_BuildGraph(n, el), MVH_new(n), n + 2))
    ELSE IF engine = "bs"
    THEN BS_collect(BS_loop(BS_BuildGraph(n, el, order), BS_new(n, order), n + 2))
    ELSE HK_collect(HK_loop(HK_BuildGraph(n, right_count, el),
             HK_new(n, right_count, order), n + 2))

\* the same with the traversal order of this run
ResultFor(el) ==
    ResultForOrder(el, IF engine = "bs" THEN st.vertices
                       ELSE IF engine = "hk" THEN st.left ELSE <<>>)

\* C11: for each engine, two runs whose edge lists are permutations of one
\* another (same vertex count, same edge set) return the identical
\* matching: the run on the list as given returns what the run on the
\* same list in ascending order returns.
C11_InputOrderIndependence ==
    pc = "done" => result = ResultFor(SortPairSeq(edges_in))

\* the engines whose constructor fills vectors of int, one per vertex
VectorEngines == {"gs", "bf", "mvp", "go1", "go2", "mvh"}

StrictlyAscending(q) == \A i \in 1..(Len(q) - 1) : q[i] < q[i + 1]

\* C12: after the constructor of a general-graph engine has run on
\* (n, edge list), the adjacency list of every vertex v is strictly
\* ascending, does not contain v, and contains w exactly when an input edge
\* with both endpoints in [0,n) joins v and w; an edge with an endpoint
\* outside [0,n) is dropped without any other effect.  Stated for the
\* constructors that return.
C12_GraphNormalization ==
    (engine \in VectorEngines /\ pc \notin {"start", "crashed"}) =>
        \A v \in Verts(n) :
            /\ StrictlyAscending(graph[v])
            /\ v \notin SeqSet(graph[v])
            /\ SeqSet(graph[v]) = Neighbours(n, edges_in, v)

(***************************************************************************)
(* main of each program, given a file name.  The file is missing, or has   *)
(* no readable header, or holds a graph.  st holds what main has done:     *)
(* what it wrote to stderr, whether it built a solver, its exit code.      *)
(***************************************************************************)
FilePath == "graph.txt"

FileKinds == {"missing", "no_header", "good"}

\* main with fopen / fscanf and the two diagnostics
StdioMains == {"gs", "mvp", "go1"}

\* main around load_graph, which throws when the file cannot be opened
StreamMains == {"go2", "mvh"}

\* main around load_graph_from_file, which returns false
ExampleMains == {"bs", "hk"}

MainFiles(e) ==
    IF e = "hk"
    THEN {inp \in BipartiteInputs : inp[1] + inp[2] <= MaxMainN}
    ELSE {inp \in GraphInputs : inp[1] <= MaxMainN}

InitMain ==
    /\ engine \in Engines
    /\ mode \in (IF engine \in WarmEngines THEN {0, 1, 2} ELSE {0})
    /\ \E kind \in FileKinds :
          /\ st = [file |-> kind, stderr |-> <<>>, constructed |-> FALSE,
                   exit_code |-> NIL]
          /\ \E inp \in (IF kind = "good" THEN MainFiles(engine)
                          ELSE {<<0, 0, <<>>>>}) :
                /\ n = inp[1]
                /\ right_count = inp[2]
                /\ edges_in = inp[3]
    /\ pc = "main"
    /\ graph = <<>>
    /\ result = <<>>
    /\ stages = 0

Exited(m, code) == [m EXCEPT !.exit_code = code]

Wrote(m, text) == [m EXCEPT !.stderr = Append(@, text)]

\* gabow_simple.cpp, micali_vazirani_pure.cpp, gabow_optimized-v1.cpp
Main_Stdio ==
    /\ pc = "main" /\ engine \in StdioMains
    /\ st' = IF st.file = "missing"
             THEN Exited(Wrote(st, <<"Cannot open file: ", FilePath>>), 1)
             ELSE IF st.file = "no_header"
             THEN Exited(Wrote(st, <<"Bad header">>), 1)
             ELSE Exited([st EXCEPT !.constructed = TRUE], 0)
    /\ result' = IF st.file = "good" THEN ResultForOrder(edges_in, <<>>)
                 ELSE result
    /\ pc' = "exit"
    /\ UNCHANGED <<input, graph, stages>>

\* edmonds_blossom_optimized.cpp
Main_BF ==
    /\ pc = "main" /\ engine = "bf"
    /\ st' = IF st.file = "missing"
             THEN Exited(Wrote(st, <<"Cannot open: ", FilePath>>), 1)
             ELSE IF st.file = "no_header" THEN Exited(st, 1)
             ELSE Exited([st EXCEPT !.constructed = TRUE], 0)
    /\ result' = IF st.file = "good" THEN ResultForOrder(edges_in, <<>>)
                 ELSE result
    /\ pc' = "exit"
    /\ UNCHANGED <<input, graph, stages>>

\* gabow_optimized.cpp, micali_vazirani.cpp: file >> n >> m is not tested;
\* after a failed read n is 0 and, when m is not positive, the solver runs
\* on the empty graph
Main_Stream ==
    /\ pc = "main" /\ engine \in StreamMains
    /\ st' = IF st.file = "missing"
             THEN Exited(Wrote(st, <<"Error: ", "Cannot open file: ", FilePath>>), 1)
             ELSE Exited([st EXCEPT !.constructed = TRUE], 0)
    /\ result' = IF st.file = "good" THEN ResultForOrder(edges_in, <<>>)
                 ELSE result
    /\ pc' = "exit"
    /\ UNCHANGED <<input, graph, stages>>

\* edmonds_blossom_simple.cpp, hopcroft_karp.cpp: the same unchecked read
Main_Examples ==
    /\ pc = "main" /\ engine \in ExampleMains
    /\ st' = IF st.file = "missing"
             THEN Exited(Wrote(st, <<"Error: Could not open file '", FilePath, "'">>), 1)
             ELSE Exited([st EXCEPT !.constructed = TRUE], 0)
    /\ \E order \in Orders(n) :
          result' = IF st.file = "good" THEN ResultForOrder(edges_in, order)
                    ELSE result
    /\ pc' = "exit"
    /\ UNCHANGED <<input, graph, stages>>

\* after a failed header read m is an uninitialized int: when it is
\* positive the edge loop pushes pairs of uninitialized ints
Main_UnreadCount ==
    /\ pc = "main" /\ engine \in StreamMains \cup ExampleMains
    /\ st.file = "no_header"
    /\ pc' = "crashed"
    /\ UNCHANGED <<input, graph, st, result, stages>>

NextMain ==
    Main_Stdio \/ Main_BF \/ Main_Stream \/ Main_Examples \/ Main_UnreadCount

SpecMain == InitMain /\ [][NextMain]_vars

\* C13: when the input file cannot be opened, or the header cannot be read,
\* main writes the single diagnostic ("Cannot open file: <path>" or
\* "Bad header") to stderr, exits with code 1 and never constructs a
\* solver; in all other cases it exits with code 0.
C13_InputErrorsFatal ==
    pc = "exit" =>
        /\ st.file = "missing" =>
              /\ st.stderr = <<<<"Cannot open file: ", FilePath>>>>
              /\ st.exit_code = 1 /\ ~st.constructed
        /\ st.file = "no_header" =>
              /\ st.stderr = <<<<"Bad header">>>>
              /\ st.exit_code = 1 /\ ~st.constructed
        /\ st.file = "good" => st.exit_code = 0

\* mate[v] as the engine of this run holds it (general-graph engines)
MateOf(v) ==
    IF engine = "gs" THEN st.mate[v]
    ELSE IF engine \in {"mvp", "mvh"} THEN At(st.nodes, v).match
    ELSE IF engine = "bs" THEN KAt(st.mate, v)
    ELSE At(st.mate, v)

MateSymmetric ==
    IF engine = "hk"
    THEN /\ \A u \in Verts(n) :
              At(st.pair_left, u) # NIL =>
                  /\ At(st.pair_left, u) \in Verts(right_count)
                  /\ At(st.pair_right, At(st.pair_left, u)) = u
         /\ \A v \in Verts(right_count) :
              At(st.pair_right, v) # NIL =>
                  /\ At(st.pair_right, v) \in Verts(n)
                  /\ At(st.pair_left, At(st.pair_right, v)) = v
    ELSE \A v \in Verts(n) :
            /\ MateOf(v) # v
            /\ MateOf(v) # NIL =>
                  MateOf(v) \in Verts(n) /\ MateOf(MateOf(v)) = v

MatchedCount == Cardinality({v \in Verts(n) : MateOf(v) # NIL})

\* C14: at every stage boundary of every engine (after construction, after
\* greedy initialization, after each completed augmentation or phase_2, and
\* at return), mate[v] = w if and only if mate[w] = v, and mate[v] is never
\* v; hence the number of matched vertices is even.
C14_MateSymmetry ==
    pc \in {"built", "first", "run", "augment", "collect", "done"} =>
        /\ MateSymmetric
        /\ engine # "hk" => MatchedCount % 2 = 0

\* gabow_optimized.cpp is back at the head of its loop after a phase_2 that
\* augmented, with four matched vertices
C14_Witness ==
    /\ engine = "go2" /\ pc = "run" /\ stages >= 1
    /\ MatchedCount = 4 /\ MateSymmetric

\* the vertices matched in the members m of GABOW-SIMPLE or BLOSSOM-FOREST
MatchedIn(m) ==
    IF engine = "gs" THEN {v \in Verts(n) : m.mate[v] # NIL}
    ELSE {v \in Verts(n) : At(m.mate, v) # NIL}

PairsIn(m) ==
    IF engine = "gs" THEN MatchedPairs(n, m.mate)
    ELSE MatchedPairs(n, ToMate(n, m.mate))

\* C15: in GABOW-SIMPLE and BLOSSOM-FOREST an augmentation triggered by an
\* S-S edge joining two different trees increases the number of matched
\* pairs by exactly 1, leaves both former roots (the two vertices that were
\* exposed) matched, and leaves every vertex matched before still matched,
\* also when the path passes through (nested) contracted blossoms.
C15_SingleAugmentation ==
    [][(engine \in {"gs", "bf"} /\ pc = "run" /\ pc' = "run") =>
          /\ Cardinality(PairsIn(st')) = Cardinality(PairsIn(st)) + 1
          /\ MatchedIn(st) \subseteq MatchedIn(st')
          /\ Cardinality(MatchedIn(st') \ MatchedIn(st)) = 2]_vars

\* BLOSSOM-FOREST has just augmented through a blossom nested in another
\* one and all six vertices are matched
C15_Witness ==
    /\ engine = "bf" /\ pc = "run" /\ st.augmented
    /\ st.h_nested /\ st.h_depth >= 2
    /\ Cardinality(PairsIn(st)) = 3

\* the matching is the same before and after the step
MateUnchanged ==
    IF engine = "hk"
    THEN st'.pair_left = st.pair_left /\ st'.pair_right = st.pair_right
    ELSE \A v \in Verts(n) : MateOf(v)' = MateOf(v)

UpTo(g, u, i) == [g EXCEPT ![u] = SubSeq(@, 1, i)]

\* GABOW-SIMPLE, find_and_augment: the reset and the root loop
GS_SearchBegin ==
    /\ pc = "run" /\ engine = "gs"
    /\ st' = [s |-> GS_find_and_augment_reset(n, st), u |-> NIL, i |-> 0]
    /\ pc' = "search"
    /\ UNCHANGED <<input, graph, result, stages>>

\* the state after int u = queue[qhead++] and find_base(u)
GS_dequeued(s) ==
    [s EXCEPT !.qhead = @ + 1,
              !.base = GS_find_base(s.base, s.queue[s.qhead + 1]).base,
              !.fuel = @ - 1]

\* int u = queue[qhead++]; if (label[find_base(u)] != EVEN) continue;
GS_Dequeue ==
    /\ pc = "search" /\ engine = "gs"
    /\ ~st.s.augmented /\ st.s.qhead < Len(st.s.queue)
    /\ st' = [s |-> GS_dequeued(st.s), u |-> st.s.queue[st.s.qhead + 1],
              i |-> 1]
    /\ pc' = IF \/ st'.s.label[GS_find_base(st.s.base, st'.u).r] # EVEN
                \/ graph[st'.u] = <<>>
             THEN "search" ELSE "edge"
    /\ UNCHANGED <<input, graph, result, stages>>

\* one iteration of for (int v : graph[u])
GS_Edge ==
    /\ pc = "edge" /\ engine = "gs"
    /\ st' = [s |-> GS_scan(UpTo(graph, st.u, st.i), st.s, st.u, st.i),
              u |-> st.u, i |-> st.i + 1]
    /\ pc' = IF st'.s.augmented \/ st'.i > Len(graph[st.u])
             THEN "search" ELSE "edge"
    /\ UNCHANGED <<input, graph, result, stages>>

\* return true after the augmentation, return false when the queue is empty
GS_SearchEnd ==
    /\ pc = "search" /\ engine = "gs"
    /\ st.s.augmented \/ st.s.qhead >= Len(st.s.queue)
    /\ st' = GS_find_and_augment_s(st.s)
    /\ pc' = IF st'.augmented THEN "run" ELSE "collect"
    /\ stages' = StageDone
    /\ UNCHANGED <<input, graph, result>>

NextGSSteps ==
    \/ GS_Construct \/ GS_Greedy \/ GS_SearchBegin \/ GS_Dequeue \/ GS_Edge
    \/ GS_SearchEnd \/ GS_Finish

\* GABOW-SCALING (gabow_optimized-v1.cpp), phase_1: the reset and the roots
GO1_Phase1Begin ==
    /\ pc = "run" /\ engine = "go1"
    /\ st' = GO1_phase_1_reset(graph, st)
    /\ pc' = "level"
    /\ UNCHANGED <<input, graph, result, stages>>

\* one edge of level_queue[Delta] is popped and processed
GO1_Edge ==
    /\ pc = "level" /\ engine = "go1"
    /\ st.Delta <= n /\ At(st.level_queue, st.Delta) # <<>>
    /\ st' = GO1_drain_edge(graph, st)
    /\ pc' = "level"
    /\ UNCHANGED <<input, graph, result, stages>>

\* level_queue[Delta] is empty and no path was seen: the deferred dbase
\* unions are executed and Delta is incremented
GO1_LevelEnd ==
    /\ pc = "level" /\ engine = "go1"
    /\ st.Delta <= n /\ At(st.level_queue, st.Delta) = <<>>
    /\ ~st.found_sap
    /\ st' = [GO1_run_dunions(st, 1) EXCEPT !.Delta = @ + 1]
    /\ pc' = "level"
    /\ UNCHANGED <<input, graph, result, stages>>

\* phase_1 returns: true after H is built (phase_2 follows at once),
\* false when Delta has passed n
GO1_Phase1End ==
    /\ pc = "level" /\ engine = "go1"
    /\ \/ st.Delta > n
       \/ At(st.level_queue, st.Delta) = <<>> /\ st.found_sap
    /\ st' = GO1_stage_s1(graph,
                 IF st.found_sap
                 THEN GO1_build_mateH(GO1_build_H(st, 1), 1) ELSE st)
    /\ pc' = IF st'.found_sap THEN "run" ELSE "collect"
    /\ stages' = StageDone
    /\ UNCHANGED <<input, graph, result>>

NextGO1Steps ==
    \/ GO1_Construct \/ GO1_Greedy \/ GO1_Phase1Begin \/ GO1_Edge
    \/ GO1_LevelEnd \/ GO1_Phase1End \/ GO1_Finish

\* BLOSSOM-FOREST, solve: resetBlossoms and the root loop of a stage
BF_SearchBegin ==
    /\ pc = "run" /\ engine = "bf"
    /\ st' = BF_stage_reset(n, st)
    /\ pc' = "search"
    /\ UNCHANGED <<input, graph, result, stages>>

\* one pass through the body of the BFS loop
BF_Dequeue ==
    /\ pc = "search" /\ engine = "bf"
    /\ st.queue # <<>> /\ ~st.augmented
    /\ st' = BF_bfs_vertex(n, graph, st)
    /\ pc' = "search"
    /\ UNCHANGED <<input, graph, result, stages>>

\* the BFS loop is left: the remaining blossoms are expanded
BF_SearchEnd ==
    /\ pc = "search" /\ engine = "bf"
    /\ st.queue = <<>> \/ st.augmented
    /\ st' = BF_stage_s1_s2(n, st)
    /\ pc' = IF st'.augmented THEN "run" ELSE "collect"
    /\ stages' = StageDone
    /\ UNCHANGED <<input, graph, result>>

NextBFSteps ==
    \/ BF_Construct \/ BF_Greedy \/ BF_SearchBegin \/ BF_Dequeue
    \/ BF_SearchEnd \/ BF_Finish

\* MV-pure, max_match: the levels are seeded (and from the second phase on
\* the nodes reset) and max_match_phase is entered
MVP_PhaseBegin ==
    /\ pc \in {"first", "run"} /\ engine = "mvp"
    /\ st' = [s |-> [(IF pc = "first" THEN MVP_seed_levels(st, 0, FALSE)
                      ELSE MVP_reset(st))
                        EXCEPT !.found = FALSE, !.fuel = MaxSteps],
              i |-> 0, j |-> 0]
    /\ pc' = "min"
    /\ UNCHANGED <<input, graph, result, stages>>

\* MIN(i), and MAX(i) up to its loop
MVP_Min ==
    /\ pc = "min" /\ engine = "mvp"
    /\ ~st.s.hung /\ MVP_phase_goes_on(st.s, st.i)
    /\ st' = [s |-> [MVP_MIN(graph, st.s, st.i) EXCEPT !.found = FALSE],
              i |-> st.i, j |-> 0]
    /\ pc' = "max"
    /\ UNCHANGED <<input, graph, result, stages>>

\* one bridge of bridges[i] is taken by MAX(i)
MVP_Bridge ==
    /\ pc = "max" /\ engine = "mvp"
    /\ st.i < Len(st.s.bridges) /\ st.j < Len(At(st.s.bridges, st.i))
    /\ st' = [s |-> MVP_max_bridge(st.s, st.i, st.j), i |-> st.i,
              j |-> st.j + 1]
    /\ pc' = IF MVP_max_returned(st.s, st'.s) THEN "phase" ELSE "max"
    /\ UNCHANGED <<input, graph, result, stages>>

\* MAX(i) returns at the end of bridges[i]: the next level
MVP_MaxEnd ==
    /\ pc = "max" /\ engine = "mvp"
    /\ IF st.i >= Len(st.s.bridges) THEN TRUE
       ELSE st.j >= Len(At(st.s.bridges, st.i))
    /\ st' = [s |-> st.s, i |-> st.i + 1, j |-> 0]
    /\ pc' = "min"
    /\ UNCHANGED <<input, graph, result, stages>>

\* max_match_phase returns, and max_match decides whether to go on
MVP_PhaseEnd ==
    /\ engine = "mvp"
    /\ pc = "phase" \/ (pc = "min" /\ ~MVP_phase_goes_on(st.s, st.i))
    /\ st' = MVP_locals_cleared(
                 IF pc = "min" /\ st.i < Len(st.s.nodes) \div 2 + 1
                               /\ ~st.s.found
                 THEN [st.s EXCEPT !.found = FALSE] ELSE st.s)
    /\ pc' = IF MVP_continue(st') THEN "run" ELSE "collect"
    /\ stages' = StageDone
    /\ UNCHANGED <<input, graph, result>>

NextMVPSteps ==
    \/ MVP_Construct \/ MVP_Greedy \/ MVP_PhaseBegin \/ MVP_Min
    \/ MVP_Bridge \/ MVP_MaxEnd \/ MVP_PhaseEnd \/ MVP_Finish

InitSteps(E) ==
    /\ engine \in E
    /\ mode \in (IF engine \in WarmEngines THEN {0, 1} ELSE {0})
    /\ \E inp \in GraphInputs \cup ScenarioInputs :
          /\ n = inp[1]
          /\ right_count = inp[2]
          /\ edges_in = inp[3]
    /\ pc = "start"
    /\ graph = <<>>
    /\ st = <<>>
    /\ result = <<>>
    /\ stages = 0

SpecLCA == InitSteps({"gs", "go1"}) /\ [][NextGSSteps \/ NextGO1Steps]_vars

\* the first vertex of path p that also lies on path q; NIL when the two
\* paths end in different roots
NearestCommonAncestor(p, q) ==
    IF p[Len(p)] # q[Len(q)] THEN NIL
    ELSE p[CHOOSE i \in 1..Len(p) :
               /\ p[i] \in SeqSet(q)
               /\ \A j \in 1..(i - 1) : p[j] \notin SeqSet(q)]

\* GABOW-SIMPLE: the bases from base b up to the root of its tree, in the
\* contracted tree (the parent of b is the base of parent[mate[b]])
RECURSIVE GS_tree_path(_, _, _)
GS_tree_path(s, b, d) ==
    IF d = 0 \/ s.mate[b] = NIL THEN <<b>>
    ELSE <<b>> \o GS_tree_path(s,
                      GS_find_base(s.base, s.parent[s.mate[b]]).r, d - 1)

\* the vertex on the other side of the edge about to be scanned
GS_edge_v == graph[st.u][st.i]

\* the for-loop of find_and_augment is about to call find_lca(u, v)
GS_lca_due ==
    /\ engine = "gs" /\ pc = "edge"
    /\ GS_find_base(st.s.base, st.u).r # GS_find_base(st.s.base, GS_edge_v).r
    /\ GS_edge_v # st.s.mate[st.u]
    /\ st.s.label[GS_find_base(st.s.base, GS_edge_v).r] = EVEN

\* the same search state with every tag as old as a tag can be
GS_tags_aged(s, t) ==
    [s EXCEPT !.lca_tag1 = [x \in DOMAIN @ |-> t],
              !.lca_tag2 = [x \in DOMAIN @ |-> t]]

\* GABOW-SCALING: the bases from base b up to the root of its tree
RECURSIVE GO1_tree_path(_, _, _)
GO1_tree_path(s, b, d) ==
    IF d = 0 \/ At(s.mate, b) = NIL \/ At(s.parent, At(s.mate, b)) = NIL
    THEN <<b>>
    ELSE <<b>> \o GO1_tree_path(s,
                      GO1_find_base(s, At(s.parent, At(s.mate, b))).r, d - 1)

\* the edge about to be popped from level_queue[Delta]
GO1_edge_next == At(st.level_queue, st.Delta)[Len(At(st.level_queue, st.Delta))]

\* its EVEN end z and its other end u, after the swap of the level loop
GO1_edge_z ==
    IF At(st.label, GO1_find_base(st, GO1_edge_next[1]).r) # EVEN
    THEN GO1_edge_next[2] ELSE GO1_edge_next[1]

GO1_edge_u ==
    IF At(st.label, GO1_find_base(st, GO1_edge_next[1]).r) # EVEN
    THEN GO1_edge_next[1] ELSE GO1_edge_next[2]

\* the level loop of phase_1 is about to call find_lca(z, u)
GO1_lca_due ==
    /\ engine = "go1" /\ pc = "level" /\ st.Delta <= n
    /\ At(st.level_queue, st.Delta) # <<>>
    /\ GO1_find_base(st, GO1_edge_z).r # GO1_find_base(st, GO1_edge_u).r
    /\ At(st.label, GO1_find_base(st, GO1_edge_z).r) = EVEN
    /\ GO1_edge_u # At(st.mate, GO1_edge_z)
    /\ At(st.label, GO1_find_base(st, GO1_edge_u).r) = EVEN

GO1_tags_aged(s, t) ==
    [s EXCEPT !.lca_tag1 = Fill(Len(@), t), !.lca_tag2 = Fill(Len(@), t)]

\* C17: find_lca(u, v), called on two EVEN vertices with different bases,
\* returns NIL if and only if the trees of u and v have different exposed
\* roots, and otherwise the nearest common ancestor of find_base(u) and
\* find_base(v) in the contracted tree; the answer does not depend on the
\* tags left by earlier calls.
C17_InterleavedLCA ==
    /\ GS_lca_due =>
          /\ GS_find_lca(st.s, st.u, GS_edge_v).lca =
                 NearestCommonAncestor(
                     GS_tree_path(st.s, GS_find_base(st.s.base, st.u).r, n),
                     GS_tree_path(st.s, GS_find_base(st.s.base, GS_edge_v).r, n))
          /\ \A t \in {0, st.s.lca_epoch} :
                 GS_find_lca(GS_tags_aged(st.s, t), st.u, GS_edge_v).lca =
                     GS_find_lca(st.s, st.u, GS_edge_v).lca
    /\ GO1_lca_due =>
          /\ GO1_find_lca(st, GO1_edge_z, GO1_edge_u).lca =
                 NearestCommonAncestor(
                     GO1_tree_path(st, GO1_find_base(st, GO1_edge_z).r, n),
                     GO1_tree_path(st, GO1_find_base(st, GO1_edge_u).r, n))
          /\ \A b \in {GO1_edge_z, GO1_edge_u} :
                 At(st.mate, GO1_tree_path(st, GO1_find_base(st, b).r, n)[
                        Len(GO1_tree_path(st, GO1_find_base(st, b).r, n))]) = NIL
          /\ \A t \in {0, st.lca_epoch} :
                 GO1_find_lca(GO1_tags_aged(st, t), GO1_edge_z, GO1_edge_u).lca =
                     GO1_find_lca(st, GO1_edge_z, GO1_edge_u).lca

\* GABOW-SIMPLE is about to search the common ancestor of two vertices of
\* one tree, earlier calls have left their tags, and the answer is neither
\* of the two bases
C17_Witness ==
    /\ GS_lca_due
    /\ st.s.lca_epoch >= 1
    /\ GS_find_lca(st.s, st.u, GS_edge_v).lca \notin
           {NIL, GS_find_base(st.s.base, st.u).r,
            GS_find_base(st.s.base, GS_edge_v).r}

SpecQueue == InitSteps({"gs", "bf"}) /\ [][NextGSSteps \/ NextBFSteps]_vars

\* p is an initial segment of q
IsPrefix(p, q) == Len(p) <= Len(q) /\ SubSeq(q, 1, Len(p)) = p

\* the S-vertices waiting to be scanned, in the order they were enqueued:
\* queue[qhead..qtail) in GABOW-SIMPLE, the vector queue in BLOSSOM-FOREST
\* (both engines enqueue at the back)
Waiting(m) ==
    IF engine = "gs" THEN SubSeq(m.s.queue, m.s.qhead + 1, Len(m.s.queue))
    ELSE m.queue

\* C18: in BLOSSOM-FOREST and GABOW-SIMPLE the waiting S-vertices are
\* processed first-in-first-out: a step of the search either dequeues
\* nothing, and the waiting vertices keep their order with the new ones
\* behind them, or it dequeues the vertex that was enqueued first.
C18_FIFOQueue ==
    [][(engine \in {"gs", "bf"} /\ pc \in {"search", "edge"}
            /\ pc' \in {"search", "edge"}) =>
          \/ IsPrefix(Waiting(st), Waiting(st'))
          \/ Waiting(st) # <<>> /\ IsPrefix(Tail(Waiting(st)), Waiting(st'))]_vars

SpecLevels == InitSteps({"go1"}) /\ [][NextGO1Steps]_vars

\* the representative find_dbase(v) would return, looked up on a copy
GO1_dbase_of(m, v) == GO1_find(m.dbase_par, v).r

\* C19: in phase_1 of gabow_optimized-v1 dbase_par changes only at a Delta
\* boundary.  While the edges of level Delta are drained dbase_par is left
\* alone (so find_dbase answers as at the start of the level) and
\* shrink_path only records unions; when level_queue[Delta] is empty the
\* recorded unions are all applied and the record is cleared, before Delta
\* is incremented and any edge of the next level is taken.
C19_DeferredUnions ==
    [][(engine = "go1" /\ pc = "level" /\ pc' = "level") =>
          IF st'.Delta = st.Delta
          THEN /\ st'.dbase_par = st.dbase_par
               /\ \A v \in Verts(n) : GO1_dbase_of(st', v) = GO1_dbase_of(st, v)
               /\ IsPrefix(st.dunions, st'.dunions)
          ELSE /\ At(st.level_queue, st.Delta) = <<>>
               /\ st'.Delta = st.Delta + 1
               /\ st'.dunions = <<>>
               /\ \A i \in 1..Len(st.dunions) :
                      GO1_dbase_of(st', st.dunions[i][1]) =
                          GO1_dbase_of(st', st.dunions[i][2])]_vars

\* an edge of a later level is about to be processed, the unions of an
\* earlier level have been applied to dbase, and new unions are on record
C19_Witness ==
    /\ engine = "go1" /\ pc = "level" /\ st.Delta >= 1 /\ st.Delta <= n
    /\ At(st.level_queue, st.Delta) # <<>>
    /\ \E v \in Verts(n) : GO1_dbase_of(st, v) # v
    /\ st.dunions # <<>>

SpecBridges == InitSteps({"mvp"}) /\ [][NextMVPSteps]_vars

\* bucket k of bridges, empty when the vector is shorter
MVP_bucket(m, k) == IF k < Len(m.bridges) THEN At(m.bridges, k) ELSE <<>>

\* MAX(i) is about to run DDFS on the bridge bridges[i][j]
MVP_bridge_due ==
    /\ engine = "mvp" /\ pc = "max"
    /\ st.i < Len(st.s.bridges) /\ st.j < Len(At(st.s.bridges, st.i))
    /\ ~At(st.s.nodes, At(At(st.s.bridges, st.i), st.j)[1]).deleted
    /\ ~At(st.s.nodes, At(At(st.s.bridges, st.i), st.j)[2]).deleted

\* C20: in MV-pure every pair (x, y) stored in bridges[k] has
\* tenacity(x, y) = 2k + 1, both when it is filed (by step_to during MIN or
\* by the promotion of a hanging bridge during MAX) and when MAX(k) takes
\* it out for DDFS; within a phase the buckets only grow at the back.
C20_BridgeBuckets ==
    [][(engine = "mvp" /\ pc \in {"min", "max"} /\ pc' \in {"min", "max"}) =>
          /\ \A k \in 0..(Len(st'.s.bridges) - 1) :
                /\ IsPrefix(MVP_bucket(st.s, k), MVP_bucket(st'.s, k))
                /\ \A p \in (Len(MVP_bucket(st.s, k)) + 1)..
                              Len(MVP_bucket(st'.s, k)) :
                       MVP_tenacity(st'.s.nodes, MVP_bucket(st'.s, k)[p][1],
                                    MVP_bucket(st'.s, k)[p][2]) = 2 * k + 1
          /\ MVP_bridge_due =>
                MVP_tenacity(st.s.nodes,
                             At(At(st.s.bridges, st.i), st.j)[1],
                             At(At(st.s.bridges, st.i), st.j)[2]) = 2 * st.i + 1]_vars

\* the pair at position p of bucket k was promoted from the hanging bridges
\* of a node absorbed into a petal
MVP_promoted(m, k, p) ==
    /\ At(m.nodes, MVP_bucket(m, k)[p][1]).bud # NIL
    /\ MVP_bucket(m, k)[p][2] \in
           SeqSet(At(m.nodes, MVP_bucket(m, k)[p][1]).hanging_bridges)

\* MAX(i), i >= 1, is about to take a bridge for DDFS while a bridge promoted
\* by a petal is on file in a bucket not yet finished
C20_Witness ==
    /\ MVP_bridge_due /\ st.i >= 1
    /\ \E k \in st.i..(Len(st.s.bridges) - 1) :
          \E p \in 1..Len(MVP_bucket(st.s, k)) :
             /\ MVP_promoted(st.s, k, p)
             /\ MVP_tenacity(st.s.nodes, MVP_bucket(st.s, k)[p][1],
                             MVP_bucket(st.s, k)[p][2]) = 2 * k + 1


\* ---- blossom membership in BLOSSOM-FOREST ----
BF_toplevel(m) ==
    {b \in 0..(m.nblos - 1) : At(m.blossomparent, b) = -1}

BF_leafset(m, b) ==
    {BF_leaves(n, m.blos, b)[i] : i \in 1..Len(BF_leaves(n, m.blos, b))}

BF_nontrivial(m) ==
    {b \in BF_toplevel(m) : BF_isBlossom(n, b) /\ At(m.blos, b).childs # <<>>}

BF_inblossom_ok(m) ==
    /\ \A b \in BF_nontrivial(m) : \A l \in BF_leafset(m, b) :
           At(m.inblossom, l) = b
    /\ \A v \in BF_toplevel(m) : ~BF_isBlossom(n, v) => At(m.inblossom, v) = v

BF_leaflabel_ok(m) ==
    \A b \in BF_nontrivial(m) : \A l \in BF_leafset(m, b) :
        At(m.label, l) = At(m.label, b)

\* C21: between two contractions of a stage of BLOSSOM-FOREST, every leaf l
\* of a top-level non-trivial blossom b has inblossom[l] = b and
\* label[l] = label[b], and a trivial top-level blossom v has inblossom[v] = v
C21_BlossomMembership ==
    (engine = "bf" /\ pc = "search") =>
        BF_inblossom_ok(st) /\ BF_leaflabel_ok(st)

\* the membership half alone
C21_MembershipOnly ==
    (engine = "bf" /\ pc = "search") => BF_inblossom_ok(st)

\* ---- the record of a blossom in BLOSSOM-FOREST ----
BF_live(m) ==
    {b \in n..(m.nblos - 1) : At(m.blos, b).childs # <<>>}

BF_record_ok(m, b) ==
    LET childs == At(m.blos, b).childs
        edges == At(m.blos, b).edges
        k == Len(childs)
    IN /\ k % 2 = 1
       /\ Len(edges) = k
       /\ At(m.blossombase, b) \in BF_leafset(m, childs[1])
       /\ \A i \in 1..k :
              /\ edges[i][1] \in BF_leafset(m, childs[i])
              /\ edges[i][2] \in BF_leafset(m, childs[(i % k) + 1])
              /\ \E j \in 1..Len(graph[edges[i][1]]) :
                     graph[edges[i][1]][j] = edges[i][2]

BF_shape_ok(m) == \A b \in BF_live(m) : BF_record_ok(m, b)

\* the search state after the first i edges of the vertex being dequeued
BF_after_edges(m, i) ==
    BF_bfs_vertex(n, UpTo(graph, m.queue[Len(m.queue)], i), m)

BF_dequeue_due ==
    engine = "bf" /\ pc = "search" /\ st.queue # <<>> /\ ~st.augmented

\* C22: after addBlossom has built a blossom, and after augmentBlossom has
\* rotated one, the record has an odd number k of childs and k edges,
\* childs[0] holds blossombase, and edges[i] is a graph edge from a leaf of
\* childs[i] to a leaf of childs[(i+1) mod k]
C22_BlossomRecordShape ==
    BF_dequeue_due =>
        \A i \in 0..Len(graph[st.queue[Len(st.queue)]]) :
            ~BF_after_edges(st, i).hung => BF_shape_ok(BF_after_edges(st, i))

\* with a nested blossom on record, the augmentation the next dequeue
\* performs rotates a blossom built earlier in the stage
C22_Witness ==
    /\ BF_dequeue_due
    /\ BF_bfs_vertex(n, graph, st).augmented
    /\ \E b \in BF_live(st) : \E i \in 1..Len(At(st.blos, b).childs) :
           BF_isBlossom(n, At(st.blos, b).childs[i])
    /\ \E b \in BF_live(st) :
           /\ At(BF_bfs_vertex(n, graph, st).blos, b).childs
                  # At(st.blos, b).childs
           /\ At(BF_bfs_vertex(n, graph, st).blos, b).childs # <<>>

\* ---- the grow step of the three alternating-forest searches ----
SpecGrow ==
    InitSteps({"gs", "go1", "bf"})
        /\ [][NextGSSteps \/ NextGO1Steps \/ NextBFSteps]_vars

\* GABOW-SIMPLE: the edge (u, v) about to be processed takes the grow branch
GS_grow_due ==
    /\ engine = "gs" /\ pc = "edge"
    /\ GS_find_base(st.s.base, st.u).r # GS_find_base(st.s.base, GS_edge_v).r
    /\ GS_edge_v # st.s.mate[st.u]
    /\ st.s.label[GS_find_base(st.s.base, GS_edge_v).r] = UNLABELED

GS_grow_ok ==
    /\ st.s.mate[GS_edge_v] \in Verts(n)
    /\ st.s.label[GS_edge_v] = UNLABELED
    /\ st.s.label[st.s.mate[GS_edge_v]] = UNLABELED
    /\ \A x \in Verts(n) :
           st.s.label[x] # UNLABELED => st'.s.label[x] = st.s.label[x]

\* gabow_optimized-v1: the pair (z, u) about to be drained reaches the
\* branch label[bu] == UNLABELED
GO1_grow_reached ==
    /\ engine = "go1" /\ pc = "level" /\ st.Delta <= n
    /\ At(st.level_queue, st.Delta) # <<>>
    /\ GO1_find_base(st, GO1_edge_z).r # GO1_find_base(st, GO1_edge_u).r
    /\ At(st.label, GO1_find_base(st, GO1_edge_z).r) = EVEN
    /\ GO1_edge_u # At(st.mate, GO1_edge_z)
    /\ At(st.label, GO1_find_base(st, GO1_edge_u).r) = UNLABELED

\* ... and passes if (mv == NIL) continue
GO1_grow_due == GO1_grow_reached /\ At(st.mate, GO1_edge_u) # NIL

GO1_grow_ok ==
    /\ At(st.mate, GO1_edge_u) \in Verts(n)
    /\ At(st.label, GO1_edge_u) = UNLABELED
    /\ At(st.label, At(st.mate, GO1_edge_u)) = UNLABELED
    /\ \A x \in Verts(n) :
           At(st.label, x) # UNLABELED => At(st'.label, x) = At(st.label, x)

\* BLOSSOM-FOREST: m is the search state in front of the edge (v, w)
BF_grow_due(m, v, w) ==
    /\ ~m.hung /\ ~m.augmented
    /\ At(m.label, At(m.inblossom, v)) = 1
    /\ At(m.inblossom, v) # At(m.inblossom, w)
    /\ At(BF_ensure(m, At(m.inblossom, w)).label, At(m.inblossom, w)) = 0

BF_grow_ok(m, v, w) ==
    /\ At(m.mate, w) \in Verts(n)
    /\ At(m.label, w) = 0
    /\ At(m.label, At(m.mate, w)) = 0
    /\ At(m.label, At(m.inblossom, At(m.mate, w))) = 0
    /\ \A x \in 0..(Len(m.label) - 1) :
           At(m.label, x) # 0 =>
               At(BF_assignLabel(n, BF_ensure(m, At(m.inblossom, w)), w, 2, v).label, x)
                   = At(m.label, x)

BF_grow_all_ok ==
    \A i \in 1..Len(graph[st.queue[Len(st.queue)]]) :
        BF_grow_due(BF_after_edges(st, i - 1), st.queue[Len(st.queue)],
                    graph[st.queue[Len(st.queue)]][i])
            => BF_grow_ok(BF_after_edges(st, i - 1), st.queue[Len(st.queue)],
                          graph[st.queue[Len(st.queue)]][i])

\* C23: a scan that takes the grow step on a neighbour w with an unlabeled
\* base finds w matched, w and mate[w] unlabeled and mate[w] a valid index,
\* and the step changes the label of no vertex that already had one
C23_GrowStepPrecondition ==
    [][/\ GS_grow_due => GS_grow_ok
       /\ GO1_grow_due => GO1_grow_ok
       /\ BF_dequeue_due => BF_grow_all_ok]_vars

\* gabow_optimized-v1 grows its forest by a matched pair at a level Delta >= 1
\* while a blossom is already contracted
C23_Witness ==
    /\ GO1_grow_due /\ st.Delta >= 1
    /\ \E x \in Verts(n) : GO1_find_base(st, x).r # x

\* ---- the outcomes of the double depth-first search of MV-pure ----
\* the bridge MAX(i) is about to hand to DDFS, and the state DDFS is entered in
MVP_bridge_taken == At(At(st.s.bridges, st.i), st.j)

MVP_ddfs_entered == [st.s EXCEPT !.bridgenum = @ - 1, !.fuel = @ - 1]

MVP_ddfs_left ==
    MVP_DDFS(MVP_ddfs_entered, MVP_bridge_taken[1], MVP_bridge_taken[2])

\* both tops are at level 0: DDFS returns before its loop
MVP_ddfs_short ==
    /\ At(st.s.nodes, MVP_bridge_taken[1]).min_level = 0
    /\ At(st.s.nodes, MVP_bridge_taken[2]).min_level = 0

\* the vertices the green and the red search have ended at
MVP_ddfs_ends(d) ==
    IF MVP_ddfs_short THEN <<d.green_top, d.red_top>> ELSE <<d.G, d.R>>

MVP_ddfs_outcome_ok(d) ==
    /\ d.ddfs = DDFS_PATH =>
          /\ MVP_ddfs_ends(d)[1] # MVP_ddfs_ends(d)[2]
          /\ \A e \in {MVP_ddfs_ends(d)[1], MVP_ddfs_ends(d)[2]} :
                 /\ e \in Verts(n)
                 /\ At(d.nodes, e).match = NIL
                 /\ At(d.nodes, e).min_level = 0
    /\ d.ddfs = DDFS_PETAL =>
          /\ d.red_stack = <<>> /\ d.green_stack = <<>>
          /\ d.Nr[2] = d.Ng[2]
          /\ d.bottleneck = d.Nr[2]
    /\ d.ddfs = DDFS_EMPTY <=>
          MVP_bud_star(st.s.nodes, MVP_bridge_taken[1])
              = MVP_bud_star(st.s.nodes, MVP_bridge_taken[2])
    /\ d.h_red \cap d.h_green = {}
    /\ d.h_red \cup d.h_green = {d.nodes_seen[q] : q \in 1..Len(d.nodes_seen)}
    /\ \A v \in d.h_red \cup d.h_green : ~At(st.s.nodes, v).visited

BF_cold_S6 ==
    /\ engine = "bf" /\ mode = 0
    /\ <<n, right_count, edges_in>> = ScenarioS6

\* C25: on scenario S6 a cold run of BLOSSOM-FOREST ends, and when it
\* returns its matching has 3 pairs and addBlossom has been performed at
\* least once
C25_ScenarioS6 ==
    BF_cold_S6 =>
        /\ pc # "hung"
        /\ pc \in {"collect", "done"} => st.h_blossoms >= 1
        /\ pc = "done" => Len(result) = 3

C25_Witness ==
    /\ BF_cold_S6 /\ pc = "done"
    /\ Len(result) = 3 /\ st.h_blossoms >= 1

\* ---- the two deferred union-finds of gabow_optimized-v1 on their own ----
MaxUF == 5

\* dbase_par and dbase2_par as phase_1 and find_apHG initialise them; no
\* operation reads both vectors, so a run works on one of them and leaves
\* the other as initialised
UF_Init ==
    /\ engine = "go1" /\ mode = 0
    /\ n \in 2..MaxUF /\ right_count = 0 /\ edges_in = <<>>
    /\ pc = "uf"
    /\ graph = <<>>
    /\ st = [dbase_par |-> Iota(n), dbase2_par |-> Iota(n), r |-> NIL]
    /\ result = <<>>
    /\ stages = 0

UF_UnionDbase ==
    /\ pc = "uf" /\ st.dbase2_par = Iota(n)
    /\ \E a, b \in Verts(n) : a # b /\ st' = GO1_union_dbase(st, a, b)
    /\ UNCHANGED <<input, pc, graph, result, stages>>

UF_MakeRepDbase ==
    /\ pc = "uf" /\ st.dbase2_par = Iota(n)
    /\ \E v \in Verts(n) : st' = GO1_make_rep_dbase(st, v)
    /\ UNCHANGED <<input, pc, graph, result, stages>>

UF_UnionDb2 ==
    /\ pc = "uf" /\ st.dbase_par = Iota(n)
    /\ \E a, b \in Verts(n) : a # b /\ st' = GO1_union_db2(st, a, b)
    /\ UNCHANGED <<input, pc, graph, result, stages>>

UF_MakeRepDb2 ==
    /\ pc = "uf" /\ st.dbase_par = Iota(n)
    /\ \E v \in Verts(n) : st' = GO1_make_rep_db2(st, v)
    /\ UNCHANGED <<input, pc, graph, result, stages>>

NextUF == UF_UnionDbase \/ UF_MakeRepDbase \/ UF_UnionDb2 \/ UF_MakeRepDb2

SpecUF == UF_Init /\ [][NextUF]_vars

\* the parent chain of x reaches a self-parented root within k steps
RECURSIVE UF_rooted(_, _, _)
UF_rooted(par, x, k) ==
    IF At(par, x) = x THEN TRUE
    ELSE IF k = 0 THEN FALSE
    ELSE UF_rooted(par, At(par, x), k - 1)

UF_forest(par) ==
    \A x \in Verts(Len(par)) :
        At(par, x) \in Verts(Len(par)) /\ UF_rooted(par, x, Len(par))

UF_partition(par) ==
    {{y \in Verts(Len(par)) : GO1_find(par, y).r = GO1_find(par, x).r} :
         x \in Verts(Len(par))}

UF_make_rep_ok(before, after, v) ==
    /\ UF_forest(after)
    /\ GO1_find(after, v).r = v
    /\ UF_partition(after) = UF_partition(before)

\* C26: after make_rep_dbase(v), and after make_rep_db2(v), find(v) = v,
\* every parent chain ends in a self-parented root, and the partition into
\* sets is the one before the call
C26_MakeRep ==
    [][pc = "uf" =>
          \A v \in Verts(n) :
              /\ st' = GO1_make_rep_dbase(st, v) =>
                     UF_make_rep_ok(st.dbase_par, st'.dbase_par, v)
              /\ st' = GO1_make_rep_db2(st, v) =>
                     UF_make_rep_ok(st.dbase2_par, st'.dbase2_par, v)]_vars

\* some vertex sits in a set of three or more with a chain of length two,
\* and is not the root: make_rep on it has to move the root
C26_Witness ==
    /\ pc = "uf"
    /\ \E v \in Verts(n) :
           /\ At(st.dbase_par, v) # v
           /\ At(st.dbase_par, At(st.dbase_par, v)) # At(st.dbase_par, v)
           /\ \E y \in Verts(n) : At(st.dbase_par, y) = v /\ y # v

\* ---- progress of the two-phase drivers ----
\* C27: in both GABOW-SCALING files a phase_2 that follows a phase_1
\* returning true adds at least one pair to the matching, so the loop never
\* goes round with mate unchanged
C27_TwoPhaseProgress ==
    [][/\ (engine = "go2" /\ pc = "augment" /\ pc' = "run") =>
              MatchedCount' >= MatchedCount + 2
       /\ (engine = "go1" /\ pc = "run" /\ pc' = "run") =>
              MatchedCount' >= MatchedCount + 2]_vars

\* the same for gabow_optimized-v1 alone
C27_ProgressV1 ==
    [][(engine = "go1" /\ pc = "run" /\ pc' = "run") =>
              MatchedCount' >= MatchedCount + 2]_vars

\* ---- the batch of paths phase_2 of gabow_optimized-v1 augments ----
\* two disjoint paths 2-0-1-3 and 6-4-5-7 whose middle edges the greedy
\* pass matches
TwoPaths ==
    <<8, 0, <<<<0, 1>>, <<0, 2>>, <<1, 3>>, <<4, 5>>, <<4, 6>>, <<5, 7>>>>>>

\* after the greedy pass (0-1, 2-3, 6-7, 8-9): the path 4-0-1-3-2-5 through
\* the odd cycle 1-2-3, and the path 10-6-7-8-9-11 of the same length
TwoPathsBlossom ==
    <<12, 0, <<<<0, 4>>, <<0, 1>>, <<1, 2>>, <<1, 3>>, <<2, 3>>, <<2, 5>>,
               <<6, 10>>, <<6, 7>>, <<7, 8>>, <<8, 9>>, <<9, 11>>>>>>

BatchInputs == {TwoPaths, TwoPathsBlossom}

InitBatch ==
    /\ engine = "go1" /\ mode = 0
    /\ \E inp \in GraphInputs \cup ScenarioInputs \cup BatchInputs :
          /\ n = inp[1]
          /\ right_count = inp[2]
          /\ edges_in = inp[3]
    /\ pc = "start"
    /\ graph = <<>>
    /\ st = <<>>
    /\ result = <<>>
    /\ stages = 0

SpecBatch == InitBatch /\ [][NextGO1]_vars

\* phase_2 up to the end of its second loop, entered with the members s1
\* that phase_1 has left
GO1_searched(s1) ==
    GO1_search_H(graph,
        [GO1_init_H([s1 EXCEPT !.fuel = MaxSteps], 1)
            EXCEPT !.tH = 0, !.all_paths = <<>>], 1)

\* for each entry of all_paths from the i-th on, the pairs augmentG unfolds
\* it to, each in the members the earlier augmentG calls have left
RECURSIVE GO1_unfolded(_, _)
GO1_unfolded(s, i) ==
    IF s.hung \/ i > Len(s.all_paths) THEN <<>>
    ELSE <<GO1_unfold([s EXCEPT !.pairs = <<>>], s.all_paths[i], 1).pairs>>
             \o GO1_unfolded(GO1_augmentG(s, s.all_paths[i]), i + 1)

PairVerts(p) == {p[i][1] : i \in 1..Len(p)} \cup {p[i][2] : i \in 1..Len(p)}

PartnerIn(p, v) ==
    LET i == CHOOSE j \in 1..Len(p) : v \in {p[j][1], p[j][2]}
    IN IF p[i][1] = v THEN p[i][2] ELSE p[i][1]

\* the vertices met from v by taking the pair of v, then the old matched
\* edge, and so on, for at most k pairs
RECURSIVE AltWalk(_, _, _, _)
AltWalk(p, mate, v, k) ==
    IF k = 0 THEN {v}
    ELSE LET w == PartnerIn(p, v)
         IN {v, w} \cup (IF At(mate, w) = NIL \/ At(mate, w) \notin PairVerts(p)
                         THEN {}
                         ELSE AltWalk(p, mate, At(mate, w), k - 1))

\* the pairs p are the unmatched edges of one simple alternating path of
\* the graph between two vertices exposed in mate
IsAugmentingPath(p, mate) ==
    /\ p # <<>>
    /\ Cardinality(PairVerts(p)) = 2 * Len(p)
    /\ \A i \in 1..Len(p) :
           /\ p[i][1] \in Verts(n) /\ p[i][2] \in Verts(n)
           /\ \E j \in 1..Len(graph[p[i][1]]) : graph[p[i][1]][j] = p[i][2]
           /\ At(mate, p[i][1]) # p[i][2]
    /\ Cardinality({v \in PairVerts(p) : At(mate, v) = NIL}) = 2
    /\ \A v \in PairVerts(p) : At(mate, v) # NIL => At(mate, v) \in PairVerts(p)
    /\ \E v \in PairVerts(p) :
           At(mate, v) = NIL /\ AltWalk(p, mate, v, Len(p)) = PairVerts(p)

GO1_batch_ok(mate, s, u) ==
    /\ Len(u) = Len(s.all_paths)
    /\ \A i \in 1..Len(u) : IsAugmentingPath(u[i], mate)
    /\ \A i, j \in 1..Len(u) : i < j => PairVerts(u[i]) \cap PairVerts(u[j]) = {}

GO1_applied_ok(mate, s, after) ==
    /\ \A v \in Verts(n) :
           /\ At(after, v) # v
           /\ At(after, v) # NIL => At(after, At(after, v)) = v
    /\ Cardinality({v \in Verts(n) : At(after, v) # NIL})
           = Cardinality({v \in Verts(n) : At(mate, v) # NIL})
               + 2 * Len(s.all_paths)

GO1_phase_2_ok(s1) ==
    (~s1.hung /\ s1.found_sap /\ ~GO1_searched(s1).hung) =>
        /\ GO1_batch_ok(s1.mate, GO1_searched(s1),
                        GO1_unfolded(GO1_searched(s1), 1))
        /\ ~GO1_augment_all(GO1_searched(s1), 1).hung =>
               GO1_applied_ok(s1.mate, GO1_searched(s1),
                              GO1_augment_all(GO1_searched(s1), 1).mate)

\* C28: the paths gabow_optimized-v1 collects in all_paths during one
\* phase_2, unfolded to G, are pairwise vertex-disjoint simple alternating
\* paths between two exposed vertices; after they are applied mate is
\* symmetric and has as many more pairs as paths were collected
C28_BatchAugmentation ==
    (engine = "go1" /\ pc = "run") => GO1_phase_2_ok(GO1_phase_1(graph, st))

\* a phase_2 that collects two paths of five edges each
C28_Witness ==
    /\ engine = "go1" /\ pc = "run"
    /\ GO1_phase_1(graph, st).found_sap
    /\ Len(GO1_searched(GO1_phase_1(graph, st)).all_paths) >= 2
    /\ \A i \in 1..2 :
           Len(GO1_unfolded(GO1_searched(GO1_phase_1(graph, st)), 1)[i]) >= 3

\* ---- HOPCROFT-KARP, one top-level dfs at a time ----
\* while (bfs()): the test
HK_Bfs ==
    /\ pc = "run" /\ engine = "hk"
    /\ \/ /\ HK_bfs(graph, st).reached
          /\ st' = [s |-> HK_bfs(graph, st), i |-> 1]
          /\ pc' = "dfs"
          /\ stages' = stages
       \/ /\ ~HK_bfs(graph, st).reached
          /\ st' = [HK_bfs(graph, st) EXCEPT !.q = <<>>, !.ok = FALSE]
          /\ pc' = "collect"
          /\ stages' = StageDone
    /\ UNCHANGED <<input, graph, result>>

\* one iteration of for (u : left): dfs(u) when u is unmatched
HK_Dfs ==
    /\ pc = "dfs" /\ engine = "hk"
    /\ st.i <= Len(st.s.left)
    /\ st' = [s |-> HK_phase_vertex(graph, st.s, st.s.left[st.i]),
              i |-> st.i + 1]
    /\ pc' = "dfs"
    /\ UNCHANGED <<input, graph, result, stages>>

\* the for loop is left: back to the test of the while loop
HK_PhaseEnd ==
    /\ pc = "dfs" /\ engine = "hk"
    /\ st.i > Len(st.s.left)
    /\ st' = [st.s EXCEPT !.q = <<>>, !.ok = FALSE]
    /\ pc' = "run"
    /\ stages' = StageDone
    /\ UNCHANGED <<input, graph, result>>

NextHKSteps == HK_Construct \/ HK_Bfs \/ HK_Dfs \/ HK_PhaseEnd \/ HK_Finish

SpecDfs == InitFor({"hk"}) /\ [][NextHKSteps]_vars

\* the for loop is about to call dfs(u) for the unmatched left vertex u
HK_dfs_due ==
    /\ engine = "hk" /\ pc = "dfs" /\ st.i <= Len(st.s.left)
    /\ At(st.s.pair_left, st.s.left[st.i]) = NIL

HK_pairing_consistent(m) ==
    \A u \in Verts(n) : \A v \in Verts(right_count) :
        At(m.pair_left, u) = v <=> At(m.pair_right, v) = u

HK_matched_left(m) == {u \in Verts(n) : At(m.pair_left, u) # NIL}

\* C29: when a top-level dfs(u) of HOPCROFT-KARP has returned,
\* pair_left[u] = v if and only if pair_right[v] = u; a call that returned
\* true has added exactly one matched left vertex, a call that returned
\* false has changed neither array; dist[u] + 1 is never computed from
\* dist[u] = INT32_MAX, neither in bfs nor in dfs
C29_PairingConsistency ==
    [][/\ HK_dfs_due =>
              /\ HK_pairing_consistent(st'.s)
              /\ st'.s.ok =>
                     /\ HK_matched_left(st.s) \subseteq HK_matched_left(st'.s)
                     /\ Cardinality(HK_matched_left(st'.s))
                            = Cardinality(HK_matched_left(st.s)) + 1
              /\ ~st'.s.ok =>
                     /\ st'.s.pair_left = st.s.pair_left
                     /\ st'.s.pair_right = st.s.pair_right
       /\ (engine = "hk" /\ pc' = "dfs") => ~st'.s.overflow
       /\ (engine = "hk" /\ pc' \in {"run", "collect"}) => ~st'.overflow]_vars

\* after an earlier top-level dfs of the phase has failed, the next one
\* returns true and re-pairs a left vertex that was matched
C29_Witness ==
    /\ HK_dfs_due
    /\ \E u \in Verts(n) :
           At(st.s.pair_left, u) = NIL /\ KAt(st.s.dist, u) = INT32_MAX
    /\ HK_phase_vertex(graph, st.s, st.s.left[st.i]).ok
    /\ \E u \in Verts(n) :
           /\ At(st.s.pair_left, u) # NIL
           /\ At(HK_phase_vertex(graph, st.s, st.s.left[st.i]).pair_left, u)
                  # At(st.s.pair_left, u)

\* ---- BLOSSOM-SIMPLE, one dequeued vertex of a search at a time ----
\* while (improved): a pass of the for loop starts
BS_PassBegin ==
    /\ pc = "run" /\ engine = "bs"
    /\ st' = [s |-> [st EXCEPT !.improved = FALSE], i |-> 1]
    /\ pc' = "try"
    /\ UNCHANGED <<input, graph, result, stages>>

\* for (v : vertices): a matched v is passed over, an exposed v starts
\* find_augmenting_path(v)
BS_TryBegin ==
    /\ pc = "try" /\ engine = "bs"
    /\ st.i <= Len(st.s.vertices) /\ ~st.s.improved
    /\ \/ /\ KAt(st.s.mate, st.s.vertices[st.i]) # NIL
          /\ st' = [st EXCEPT !.i = @ + 1]
          /\ pc' = "try"
       \/ /\ KAt(st.s.mate, st.s.vertices[st.i]) = NIL
          /\ st' = [st EXCEPT !.s = BS_search_begin(@, st.s.vertices[st.i])]
          /\ pc' = "bfs"
    /\ UNCHANGED <<input, graph, result, stages>>

\* one iteration of while (!q.empty()): v is dequeued and graph[v] scanned
BS_Dequeue ==
    /\ pc = "bfs" /\ engine = "bs"
    /\ ~st.s.hung /\ ~st.s.found /\ st.s.q # <<>>
    /\ st' = [st EXCEPT !.s =
                 IF st.s.fuel = 0 THEN [st.s EXCEPT !.hung = TRUE]
                 ELSE BS_scan(graph, [st.s EXCEPT !.q = Tail(@),
                                                  !.fuel = @ - 1],
                              Head(st.s.q), 1)]
    /\ pc' = "bfs"
    /\ UNCHANGED <<input, graph, result, stages>>

\* find_augmenting_path returns: a non-empty path is augmented and the for
\* loop is left, an empty one passes on to the next vertex
BS_SearchEnd ==
    /\ pc = "bfs" /\ engine = "bs"
    /\ st.s.hung \/ st.s.found \/ st.s.q = <<>>
    /\ st' = IF st.s.hung THEN st
             ELSE IF st.s.found
             THEN [st EXCEPT !.s = [st.s EXCEPT
                                       !.mate = BS_augment(@, st.s.path, 0),
                                       !.improved = TRUE]]
             ELSE [st EXCEPT !.i = @ + 1]
    /\ pc' = "try"
    /\ UNCHANGED <<input, graph, result, stages>>

\* the for loop is left: back to the test of while (improved)
BS_PassEnd ==
    /\ pc = "try" /\ engine = "bs"
    /\ st.s.hung \/ st.s.improved \/ st.i > Len(st.s.vertices)
    /\ st' = [st.s EXCEPT !.q = <<>>, !.path_v = {}, !.path = <<>>,
                          !.outer = FALSE, !.bb = NIL, !.found = FALSE,
                          !.fuel = 0]
    /\ pc' = IF st'.hung THEN "hung"
             ELSE IF st'.improved THEN "run" ELSE "collect"
    /\ stages' = StageDone
    /\ UNCHANGED <<input, graph, result>>

NextBSSteps ==
    \/ BS_Construct \/ BS_PassBegin \/ BS_TryBegin \/ BS_Dequeue
    \/ BS_SearchEnd \/ BS_PassEnd \/ BS_Finish

SpecPaths == InitFor({"bs"}) /\ [][NextBSSteps]_vars

\* a search of find_augmenting_path(start) is under way or has just ended
BS_searching == engine = "bs" /\ pc = "bfs"

BS_start == st.s.vertices[st.i]

\* find_augmenting_path is about to return the non-empty path st.s.path
BS_path_due == BS_searching /\ ~st.s.hung /\ st.s.found

BS_matched(mate) == {v \in Verts(n) : KAt(mate, v) # NIL}

\* p is a simple path of G with an even number of vertices whose edges are
\* alternately outside and inside the matching mate, between two distinct
\* exposed vertices one of which is start
BS_path_ok(adj, mate, p, start) ==
    /\ Len(p) >= 2 /\ Len(p) % 2 = 0
    /\ \A j, k \in 1..Len(p) : p[j] = p[k] => j = k
    /\ \A k \in 1..(Len(p) - 1) :
           /\ \E j \in 1..Len(KAt(adj, p[k])) : KAt(adj, p[k])[j] = p[k + 1]
           /\ (k % 2 = 1) => KAt(mate, p[k]) # p[k + 1]
           /\ (k % 2 = 0) => KAt(mate, p[k]) = p[k + 1]
    /\ KAt(mate, p[1]) = NIL /\ KAt(mate, p[Len(p)]) = NIL
    /\ p[1] # p[Len(p)]
    /\ start \in {p[1], p[Len(p)]}

\* augment(p) leaves mate symmetric with one more pair
BS_augment_ok(mate, p) ==
    /\ \A v \in Verts(n) :
           KAt(BS_augment(mate, p, 0), v) # NIL =>
               KAt(BS_augment(mate, p, 0), KAt(BS_augment(mate, p, 0), v)) = v
    /\ Cardinality(BS_matched(BS_augment(mate, p, 0)))
           = Cardinality(BS_matched(mate)) + 2

\* the vertex reached from v after k links of the parent map
RECURSIVE BS_ancestor(_, _, _)
BS_ancestor(parent, v, k) ==
    IF k = 0 \/ v \in {NIL, ABSENT} THEN v
    ELSE BS_ancestor(parent, KAt(parent, v), k - 1)

\* the parent map is a tree rooted at start: start is the only vertex that
\* is its own parent and every vertex with a parent is linked to start
BS_parent_tree(parent, start) ==
    /\ KAt(parent, start) = start
    /\ \A v \in Verts(n) :
           KAt(parent, v) # ABSENT =>
               /\ (KAt(parent, v) = v) => v = start
               /\ BS_ancestor(parent, v, n) = start

\* C30: whatever the traversal order of the hash containers, every non-empty
\* path find_augmenting_path(start) of BLOSSOM-SIMPLE returns for an exposed
\* start is a simple path of G with an even number of vertices, its edges
\* alternately unmatched and matched, its ends distinct and exposed and one
\* of them start; augment(path) leaves mate symmetric with one more pair;
\* during the search the parent map is a tree rooted at start, and
\* parent[start] = start is its only self-link
C30_PathSoundness ==
    /\ BS_searching => BS_parent_tree(st.s.parent, BS_start)
    /\ BS_path_due =>
           /\ BS_path_ok(graph, st.s.mate, st.s.path, BS_start)
           /\ BS_augment_ok(st.s.mate, st.s.path)

\* a search that has contracted a blossom returns a path of four or more
\* vertices
C30_Witness ==
    /\ BS_path_due
    /\ Len(st.s.path) >= 4
    /\ \E v \in Verts(n) : KAt(st.s.base, v) # v
=============================================================================
